---------------------------- MODULE Spec2Model ----------------------------
(***************************************************************************)
(* Model of the classification-and-materialization engine of               *)
(* ClipboardToFile (src/src/ClipboardToFile.cpp).                          *)
(*                                                                         *)
(* A std::wstring is a sequence of code units; a code unit is a one-       *)
(* character TLA+ string ("a", ".", "\\", ...).  The three box-drawing     *)
(* code points are written "U251C", "U2514", "U2502", "U2500".             *)
(***************************************************************************)
EXTENDS Integers, Sequences, FiniteSets, TLC

VARIABLES
    settings,   \* g_settings + g_compiledRegexes (AppSettings, line 88)
    fs,         \* the file system: canonical path -> [isDir, content]
    log,        \* history: OS calls, dialogs and toasts of the last operation
    pc,         \* "ready" before the operation, "done" after it
    input,      \* the inputs of the operation (text / tree, destination, ...)
    result      \* what the operation returned

vars == <<settings, fs, log, pc, input, result>>

-----------------------------------------------------------------------------
(* std::wstring helpers                                                    *)

\* s.find(sub) != npos
Contains(s, sub) ==
    \E i \in 1..(Len(s) - Len(sub) + 1) : SubSeq(s, i, i + Len(sub) - 1) = sub

\* s.find(sub): 0-based position of the first occurrence, -1 for npos
FindStr(s, sub) ==
    IF Contains(s, sub)
    THEN (CHOOSE i \in 1..(Len(s) - Len(sub) + 1) :
            /\ SubSeq(s, i, i + Len(sub) - 1) = sub
            /\ \A j \in 1..(i - 1) : SubSeq(s, j, j + Len(sub) - 1) # sub) - 1
    ELSE -1

\* s.find_first_not_of(set): 0-based, -1 for npos
FirstNotOf(s, set) ==
    IF \E i \in 1..Len(s) : s[i] \notin set
    THEN (CHOOSE i \in 1..Len(s) :
            s[i] \notin set /\ \A j \in 1..(i - 1) : s[j] \in set) - 1
    ELSE -1

\* s.find_last_not_of(set): 0-based, -1 for npos
LastNotOf(s, set) ==
    IF \E i \in 1..Len(s) : s[i] \notin set
    THEN (CHOOSE i \in 1..Len(s) :
            s[i] \notin set /\ \A j \in (i + 1)..Len(s) : s[j] \in set) - 1
    ELSE -1

\* s.find_last_of(set): 0-based, -1 for npos
LastOf(s, set) ==
    IF \E i \in 1..Len(s) : s[i] \in set
    THEN (CHOOSE i \in 1..Len(s) :
            s[i] \in set /\ \A j \in (i + 1)..Len(s) : s[j] \notin set) - 1
    ELSE -1

\* s.erase(0, s.find_first_not_of(set)); erase(0, npos) empties the string
TrimLeft(s, set) ==
    IF FirstNotOf(s, set) = -1 THEN <<>>
    ELSE SubSeq(s, FirstNotOf(s, set) + 1, Len(s))

\* s.erase(s.find_last_not_of(set) + 1); npos + 1 = 0 empties the string
TrimRight(s, set) == SubSeq(s, 1, LastNotOf(s, set) + 1)

Trim(s, set) == TrimRight(TrimLeft(s, set), set)

\* s.substr(pos) with a 0-based pos
Substr(s, pos) == SubSeq(s, pos + 1, Len(s))

LowerChars == <<"a", "b", "c", "d", "e", "f", "g", "h", "i", "j", "k", "l", "m",
                "n", "o", "p", "q", "r", "s", "t", "u", "v", "w", "x", "y", "z">>
UpperChars == <<"A", "B", "C", "D", "E", "F", "G", "H", "I", "J", "K", "L", "M",
                "N", "O", "P", "Q", "R", "S", "T", "U", "V", "W", "X", "Y", "Z">>
Digits == {"0", "1", "2", "3", "4", "5", "6", "7", "8", "9"}

\* ::towupper / ::towlower on one code unit
ToUpperChar(c) ==
    IF \E i \in 1..26 : LowerChars[i] = c
    THEN UpperChars[CHOOSE i \in 1..26 : LowerChars[i] = c] ELSE c
ToLowerChar(c) ==
    IF \E i \in 1..26 : UpperChars[i] = c
    THEN LowerChars[CHOOSE i \in 1..26 : UpperChars[i] = c] ELSE c

ToUpper(s) == [i \in 1..Len(s) |-> ToUpperChar(s[i])]
ToLower(s) == [i \in 1..Len(s) |-> ToLowerChar(s[i])]

\* the code units of the model's alphabet that lie in 0x00-0x1F
ControlChars == {"\t", "\n", "\r"}

\* the whitespace operator>> and std::getline-free tokenizing skip
StreamSpace == {" ", "\t", "\n", "\r"}

\* std::to_wstring / operator<< of a non-negative int
RECURSIVE DecimalDigits(_)
DecimalDigits(n) ==
    LET d == <<"0", "1", "2", "3", "4", "5", "6", "7", "8", "9">>[(n % 10) + 1]
    IN  IF n < 10 THEN <<d>> ELSE DecimalDigits(n \div 10) \o <<d>>

\* a local variable: Op is the rest of the function with `value` named, as
\*     auto name = value; ...
With(value, Op(_)) == Op(value)

-----------------------------------------------------------------------------
(* FILE/DIRECTORY SECURITY & PATH VALIDATION                               *)

MaxFilenameLength == 255

IsPathSafeNoTraversalCheck(path) ==
    /\ ~(Len(path) >= 2 /\ path[2] = ":")
    /\ ~(path[1] = "\\" \/ path[1] = "/")

IsPathSafe(path) ==
    \* path traversal
    /\ ~Contains(path, <<".", ".", "\\">>)
    /\ ~Contains(path, <<".", ".", "/">>)
    \* absolute paths
    /\ ~(Len(path) >= 2 /\ path[2] = ":")
    /\ ~(path[1] = "\\" \/ path[1] = "/")
    \* UNC paths
    /\ ~(Len(path) >= 2 /\ path[1] = "\\" /\ path[2] = "\\")

InvalidChars == {"\\", "/", ":", "*", "?", "\"", "<", ">", "|"}

\* upperFilename up to its last '.', or all of it
BaseNameOf(filename) ==
    LET upper == ToUpper(filename)
        dotPos == LastOf(upper, {"."})
    IN  IF dotPos # -1 THEN SubSeq(upper, 1, dotPos) ELSE upper

\* COMx / LPTx where x is any number
IsPortName(baseName, prefix) ==
    /\ Len(baseName) >= 4
    /\ SubSeq(baseName, 1, 3) = prefix
    /\ \A i \in 4..Len(baseName) : baseName[i] \in Digits

\* IsValidFilename without the reserved device names
IsValidFilenameNoDeviceNames(filename) ==
    /\ filename # <<>>
    /\ Len(filename) <= MaxFilenameLength
    /\ ~Contains(filename, <<".", ".", "/">>)
    /\ ~Contains(filename, <<".", ".", "\\">>)
    /\ ~(Len(filename) >= 2 /\ filename[2] = ":")
    /\ \A i \in 1..Len(filename) : filename[i] \notin InvalidChars
    /\ \A i \in 1..Len(filename) : filename[i] \notin ControlChars
    /\ filename[Len(filename)] # "."

IsValidFilename(filename) ==
    /\ filename # <<>>
    /\ Len(filename) <= MaxFilenameLength
    /\ ~Contains(filename, <<".", ".", "/">>)
    /\ ~Contains(filename, <<".", ".", "\\">>)
    /\ ~(Len(filename) >= 2 /\ filename[2] = ":")
    /\ ~(filename[1] = "\\" \/ filename[1] = "/")
    /\ \A i \in 1..Len(filename) : filename[i] \notin InvalidChars
    /\ \A i \in 1..Len(filename) : filename[i] \notin ControlChars
    /\ BaseNameOf(filename) \notin
          {<<"C", "O", "N">>, <<"P", "R", "N">>, <<"A", "U", "X">>, <<"N", "U", "L">>}
    /\ ~IsPortName(BaseNameOf(filename), <<"C", "O", "M">>)
    /\ ~IsPortName(BaseNameOf(filename), <<"L", "P", "T">>)
    /\ filename[Len(filename)] # "."
    /\ \E i \in 1..Len(filename) : filename[i] # "."

-----------------------------------------------------------------------------
(* The file system and the Win32 / CRT calls the engine makes.             *)
(* A canonical path is the sequence of its components, drive first.  A     *)
(* world w carries the file system w.fs, the history w.log, the result     *)
(* w.ok of the last call and the environment w.env of the operation:       *)
(* env.deny is the set of <<call, canonical path>> the OS refuses,         *)
(* env.answer the button a conflict MessageBoxW returns, env.confirm the   *)
(* button of the large-structure MessageBoxW.                              *)

Separators == {"\\", "/"}

\* the directory relative paths are resolved against
CurrentDirectory == << <<"C", ":">>, <<"w">> >>

\* characters no path component may hold (ERROR_INVALID_NAME)
OsInvalidChars == {":", "*", "?", "\"", "<", ">", "|"} \cup ControlChars

RECURSIVE SplitOn(_, _)
SplitOn(s, seps) ==
    IF \E i \in 1..Len(s) : s[i] \in seps
    THEN LET i == CHOOSE k \in 1..Len(s) :
                    s[k] \in seps /\ \A j \in 1..(k - 1) : s[j] \notin seps
         IN  <<SubSeq(s, 1, i - 1)>> \o SplitOn(SubSeq(s, i + 1, Len(s)), seps)
    ELSE <<s>>

RECURSIVE WalkComponents(_, _)
WalkComponents(acc, comps) ==
    IF comps = <<>> THEN acc
    ELSE LET c == Head(comps)
         IN  IF c = <<>> \/ c = <<".">> THEN WalkComponents(acc, Tail(comps))
             ELSE IF c = <<".", ".">>
                  THEN WalkComponents(IF Len(acc) > 1 THEN SubSeq(acc, 1, Len(acc) - 1)
                                      ELSE acc, Tail(comps))
                  ELSE WalkComponents(Append(acc, c), Tail(comps))

\* the canonical path a Win32 call resolves `path` to
Resolve(path) ==
    IF Len(path) >= 2 /\ path[2] = ":"
    THEN WalkComponents(<<SubSeq(path, 1, 2)>>, SplitOn(Substr(path, 2), Separators))
    ELSE IF path # <<>> /\ path[1] \in Separators
         THEN WalkComponents(<<CurrentDirectory[1]>>, SplitOn(path, Separators))
         ELSE WalkComponents(CurrentDirectory, SplitOn(path, Separators))

\* no component after the drive holds a character the OS refuses
OsNameOk(path) ==
    LET rest == IF Len(path) >= 2 /\ path[2] = ":" THEN Substr(path, 2) ELSE path
    IN  \A i \in 1..Len(rest) : rest[i] \notin OsInvalidChars

ParentOf(key) == SubSeq(key, 1, Len(key) - 1)

\* GetFileAttributesW(path) != INVALID_FILE_ATTRIBUTES
PathExists(w, path) == OsNameOk(path) /\ Resolve(path) \in DOMAIN w.fs

\* attrs & FILE_ATTRIBUTE_DIRECTORY
PathIsDirectory(w, path) == PathExists(w, path) /\ w.fs[Resolve(path)].isDir

ParentIsDirectory(w, key) ==
    /\ Len(key) > 1
    /\ ParentOf(key) \in DOMAIN w.fs
    /\ w.fs[ParentOf(key)].isDir

Denied(w, call, key) == <<call, key>> \in w.env.deny

\* one more entry of the history: an OS call with the file system it left
Logged(w, call, path, ok, newFs) ==
    [w EXCEPT !.fs = newFs, !.ok = ok,
              !.log = Append(@, [op |-> call, path |-> path, ok |-> ok, fs |-> newFs])]

\* a dialog or a toast: no file-system effect
Noted(w, call, what) ==
    [w EXCEPT !.log = Append(@, [op |-> call, path |-> what, ok |-> TRUE, fs |-> w.fs])]

AddEntry(f, key, entry) == [k \in DOMAIN f \cup {key} |-> IF k = key THEN entry ELSE f[k]]
RemoveEntry(f, key) == [k \in DOMAIN f \ {key} |-> f[k]]

\* CreateDirectoryW(path, NULL)
CreateDirectoryW(w, path) ==
    LET key == Resolve(path)
        ok  == /\ OsNameOk(path)
               /\ key \notin DOMAIN w.fs
               /\ ParentIsDirectory(w, key)
               /\ ~Denied(w, "create", key)
    IN  Logged(w, "CreateDirectoryW", path, ok,
               IF ok THEN AddEntry(w.fs, key, [isDir |-> TRUE, content |-> <<>>]) ELSE w.fs)

\* CreateFileW(path, GENERIC_WRITE, 0, NULL, CREATE_NEW, ...) + CloseHandle
CreateFileNew(w, path) ==
    LET key == Resolve(path)
        ok  == /\ OsNameOk(path)
               /\ key \notin DOMAIN w.fs
               /\ ParentIsDirectory(w, key)
               /\ ~Denied(w, "create", key)
    IN  Logged(w, "CreateFileW", path, ok,
               IF ok THEN AddEntry(w.fs, key, [isDir |-> FALSE, content |-> <<>>]) ELSE w.fs)

\* std::wofstream file(path): creates the file or truncates an existing one
OpenTruncate(w, path) ==
    LET key == Resolve(path)
        ok  == /\ OsNameOk(path)
               /\ ParentIsDirectory(w, key)
               /\ ~(key \in DOMAIN w.fs /\ w.fs[key].isDir)
               /\ ~Denied(w, "create", key)
    IN  Logged(w, "wofstream", path, ok,
               IF ok THEN AddEntry(w.fs, key, [isDir |-> FALSE, content |-> <<>>]) ELSE w.fs)

\* one WriteFile of the stream buffer: appends `chunk` to the open file
WriteChunk(w, path, chunk) ==
    LET key == Resolve(path)
    IN  Logged(w, "WriteFile", path, TRUE,
               [w.fs EXCEPT ![key].content = @ \o chunk])

\* the code units above 0xFF of the alphabet: the stream's codecvt (the
\* "C" locale, never changed by the program) cannot narrow them
WideOnlyChars == {"U2502", "U251C", "U2514", "U2500"}

\* the prefix of content the stream can convert
RECURSIVE NarrowPrefix(_)
NarrowPrefix(content) ==
    IF content = <<>> \/ Head(content) \in WideOnlyChars THEN <<>>
    ELSE <<Head(content)>> \o NarrowPrefix(Tail(content))

\* file << content; file.close(): the convertible prefix reaches the file
\* in two writes when it is longer than one code unit; a denied write
\* leaves the first part on disk; a denied write or an inconvertible code
\* unit sets the stream's failbit (w.ok = FALSE).  The content of a file
\* is the text a text-mode reader gets back from it.
WriteAndClose(w, path, content) ==
    LET key  == Resolve(path)
        good == NarrowPrefix(content)
        half == Len(good) \div 2
        w1   == IF half > 0 THEN WriteChunk(w, path, SubSeq(good, 1, half)) ELSE w
        w2   == IF Len(good) > half
                THEN WriteChunk(w1, path, SubSeq(good, half + 1, Len(good))) ELSE w1
    IN  IF Denied(w, "write", key)
        THEN Logged(w1, "close", path, FALSE, w1.fs)
        ELSE Logged(w2, "close", path, good = content, w2.fs)

\* MoveFileExW(from, to, MOVEFILE_REPLACE_EXISTING)
MoveFileExW(w, from, to) ==
    LET src == Resolve(from)
        dst == Resolve(to)
        ok  == /\ OsNameOk(from) /\ OsNameOk(to)
               /\ src \in DOMAIN w.fs
               /\ ~w.fs[src].isDir
               /\ ParentIsDirectory(w, dst)
               /\ ~(dst \in DOMAIN w.fs /\ w.fs[dst].isDir)
               /\ ~Denied(w, "move", dst)
    IN  Logged(w, "MoveFileExW", to, ok,
               IF ok THEN RemoveEntry(AddEntry(w.fs, dst, w.fs[src]), src) ELSE w.fs)

\* DeleteFileW(path): the result is not looked at by any caller
DeleteFileW(w, path) ==
    LET key == Resolve(path)
        ok  == OsNameOk(path) /\ key \in DOMAIN w.fs /\ ~w.fs[key].isDir
    IN  Logged(w, "DeleteFileW", path, ok, IF ok THEN RemoveEntry(w.fs, key) ELSE w.fs)

\* ShowToastNotification(g_hMainWnd, title, ..., icon)
ShowToastNotification(w, title, icon) ==
    Noted(w, "Toast", <<title, icon>>)

-----------------------------------------------------------------------------
(* TreeNode and the four parsers                                           *)
(* A TreeNode is [name, isDirectory, content, children]; a TreeNode* of    *)
(* the parsers' stacks is the sequence of child indices leading to the     *)
(* node from the root.  A parser returns [thrown, root]: thrown is TRUE    *)
(* when a std::out_of_range leaves the parser.                             *)

TreeNode(n, isDir) ==
    [name |-> n, isDirectory |-> isDir, content |-> <<>>, children |-> <<>>]

RootName == <<"r", "o", "o", "t">>

RECURSIVE NodeAt(_, _)
NodeAt(node, ptr) ==
    IF ptr = <<>> THEN node ELSE NodeAt(node.children[Head(ptr)], Tail(ptr))

\* ptr->children.push_back(child)
RECURSIVE PushChild(_, _, _)
PushChild(node, ptr, child) ==
    IF ptr = <<>> THEN [node EXCEPT !.children = Append(@, child)]
    ELSE [node EXCEPT !.children[Head(ptr)] = PushChild(@, Tail(ptr), child)]

\* std::getline(ss, line, delim) until the stream ends
GetLinesBy(text, delim) ==
    IF text = <<>> THEN <<>>
    ELSE LET parts == SplitOn(text, {delim})
         IN  IF text[Len(text)] = delim THEN SubSeq(parts, 1, Len(parts) - 1) ELSE parts

GetLines(text) == GetLinesBy(text, "\n")

\* while (stack.size() > n) stack.pop_back()
RECURSIVE PopWhileLonger(_, _)
PopWhileLonger(stack, n) ==
    IF Len(stack) > n THEN PopWhileLonger(SubSeq(stack, 1, Len(stack) - 1), n) ELSE stack

\* the depth loop of ParseTreeCommandFormat: <<depth, pos>> after it
RECURSIVE TreeDepthScan(_, _, _)
TreeDepthScan(line, depth, pos) ==
    IF pos < Len(line) /\ line[pos + 1] \in {"U2502", " "}
    THEN TreeDepthScan(line, depth + 1, pos + 4)
    ELSE <<depth, pos>>

TreeChars == {" ", "\t", "U2502", "U251C", "U2514", "U2500"}

\* one line of ParseTreeCommandFormat
TreeCommandLine(st, line) ==
    LET scan  == TreeDepthScan(line, 0, 0)
        depth == scan[1]
        pos   == scan[2]
        rest  == IF pos >= Len(line) THEN <<>> ELSE Substr(line, pos)
        start == FirstNotOf(rest, TreeChars)
        name0 == TrimRight(TrimLeft(Substr(rest, start), {" ", "\t"}), {" ", "\t", "\r"})
        isDir == name0[Len(name0)] = "/"
        name  == IF isDir THEN SubSeq(name0, 1, Len(name0) - 1) ELSE name0
        stack == PopWhileLonger(st.stack, depth + 1)
        ptr   == stack[Len(stack)]
        root  == PushChild(st.root, ptr, TreeNode(name, isDir))
        nodePtr == Append(ptr, Len(NodeAt(root, ptr).children))
    IN  IF line = <<>> \/ start = -1 \/ name0 = <<>> THEN st
        ELSE [st EXCEPT !.root = root,
                        !.stack = IF isDir THEN Append(stack, nodePtr) ELSE stack]

RECURSIVE FoldLines(_, _, _)
FoldLines(Op(_, _), st, lines) ==
    IF lines = <<>> \/ st.thrown THEN st
    ELSE FoldLines(Op, Op(st, Head(lines)), Tail(lines))

ParseTreeCommandFormat(lines) ==
    LET st == FoldLines(TreeCommandLine,
                        [root |-> TreeNode(RootName, TRUE), stack |-> << <<>> >>,
                         thrown |-> FALSE], lines)
    IN  [thrown |-> st.thrown, root |-> st.root]

\* the indent loop of ParseIndentationFormat: tab counts 4
RECURSIVE CountIndent(_)
CountIndent(line) ==
    IF line = <<>> THEN 0
    ELSE IF Head(line) = " " THEN 1 + CountIndent(Tail(line))
    ELSE IF Head(line) = "\t" THEN 4 + CountIndent(Tail(line))
    ELSE 0

\* an unwinding that keeps a directory of the same indent open
RECURSIVE PopWhileStrictlyDeeper(_, _)
PopWhileStrictlyDeeper(stack, indent) ==
    IF stack # <<>> /\ stack[Len(stack)][2] > indent
    THEN PopWhileStrictlyDeeper(SubSeq(stack, 1, Len(stack) - 1), indent)
    ELSE stack

\* while (!stack.empty() && stack.back().second >= indent) stack.pop_back()
RECURSIVE PopWhileDeeper(_, _)
PopWhileDeeper(stack, indent) ==
    IF stack # <<>> /\ stack[Len(stack)][2] >= indent
    THEN PopWhileDeeper(SubSeq(stack, 1, Len(stack) - 1), indent)
    ELSE stack

\* one line of ParseIndentationFormat; line.substr(indent) throws
\* std::out_of_range when indent > line.length()
IndentationLine(st, line) ==
    LET indent == CountIndent(line)
        name0 == TrimRight(TrimLeft(Substr(line, indent), {" ", "\t"}), {" ", "\t", "\r"})
        isDir == name0[Len(name0)] = "/"
        name  == IF isDir THEN SubSeq(name0, 1, Len(name0) - 1) ELSE name0
        stack == PopWhileDeeper(st.stack, indent)
        ptr   == stack[Len(stack)][1]
        root  == PushChild(st.root, ptr, TreeNode(name, isDir))
        nodePtr == Append(ptr, Len(NodeAt(root, ptr).children))
    IN  IF line = <<>> THEN st
        ELSE IF indent > Len(line) THEN [st EXCEPT !.thrown = TRUE]
        ELSE IF name0 = <<>> THEN st
        ELSE [st EXCEPT !.root = root,
                        !.stack = IF isDir THEN Append(stack, <<nodePtr, indent>>)
                                  ELSE stack]

ParseIndentationFormat(lines) ==
    LET st == FoldLines(IndentationLine,
                        [root |-> TreeNode(RootName, TRUE), stack |-> << <<<<>>, -1>> >>,
                         thrown |-> FALSE], lines)
    IN  [thrown |-> st.thrown, root |-> st.root]

\* std::replace(path.begin(), path.end(), L'\\', L'/')
NormalizeSeparators(path) == [i \in 1..Len(path) |-> IF path[i] = "\\" THEN "/" ELSE path[i]]

\* the non-empty components of the path
PathComponents(path) == SelectSeq(GetLinesBy(path, "/"), LAMBDA c : c # <<>>)

\* index of the first child named comp, 0 when there is none
ChildNamed(node, comp) ==
    IF \E i \in 1..Len(node.children) : node.children[i].name = comp
    THEN CHOOSE i \in 1..Len(node.children) :
            /\ node.children[i].name = comp
            /\ \A j \in 1..(i - 1) : node.children[j].name # comp
    ELSE 0

\* the component loop of ParsePathListFormat from component i on
RECURSIVE PathListWalk(_, _, _, _, _)
PathListWalk(root, current, comps, i, path) ==
    IF i > Len(comps) THEN root
    ELSE LET comp   == comps[i]
             isLast == i = Len(comps)
             dotPos == LastOf(comp, {"."})
             isDir  == IF ~isLast THEN TRUE
                       ELSE IF path[Len(path)] = "/" THEN TRUE
                       ELSE ~(dotPos # -1 /\ dotPos > 0)
             found  == ChildNamed(NodeAt(root, current), comp)
             root1  == IF found = 0
                       THEN PushChild(root, current, TreeNode(comp, isDir)) ELSE root
             child  == IF found = 0
                       THEN Append(current, Len(NodeAt(root1, current).children))
                       ELSE Append(current, found)
         IN  PathListWalk(root1, IF isDir THEN child ELSE current, comps, i + 1, path)

\* one line of ParsePathListFormat
PathListLine(st, line) ==
    LET path0 == TrimRight(TrimLeft(line, {" ", "\t"}), {" ", "\t", "\r"})
        path  == NormalizeSeparators(path0)
        comps == PathComponents(path)
    IN  IF path0 = <<>> \/ comps = <<>> THEN st
        ELSE [st EXCEPT !.root = PathListWalk(st.root, <<>>, comps, 1, path)]

ParsePathListFormat(lines) ==
    LET st == FoldLines(PathListLine,
                        [root |-> TreeNode(RootName, TRUE), stack |-> <<>>,
                         thrown |-> FALSE], lines)
    IN  [thrown |-> st.thrown, root |-> st.root]

StartMarker == <<"-", "-", "-", "S", "T", "A", "R", "T", ":">>
EndMarker == <<"-", "-", "-", "E", "N", "D", ":">>

\* the setContent lambda of ParseEnhancedFormat
RECURSIVE SetContent(_, _, _)
SetContent(node, currentFile, currentContent) ==
    IF ~node.isDirectory /\ node.name = currentFile
    THEN [node EXCEPT !.content = currentContent]
    ELSE [node EXCEPT !.children =
            [i \in 1..Len(node.children) |->
                SetContent(node.children[i], currentFile, currentContent)]]

\* one line of the marker loop of ParseEnhancedFormat
EnhancedLine(st, line) ==
    IF Contains(line, StartMarker)
    THEN LET start == FindStr(line, StartMarker) + 9
             tail  == Substr(line, start)
             endp  == FindStr(tail, <<"-", "-", "-">>)
         IN  IF endp # -1
             THEN [st EXCEPT !.currentFile = Trim(SubSeq(tail, 1, endp), {" ", "\t"}),
                             !.inContent = TRUE, !.currentContent = <<>>]
             ELSE st
    ELSE IF Contains(line, EndMarker) /\ st.inContent
    THEN [st EXCEPT !.inContent = FALSE,
                    !.root = SetContent(st.root, st.currentFile, st.currentContent)]
    ELSE IF st.inContent
    THEN [st EXCEPT !.currentContent =
                        (IF @ # <<>> THEN @ \o <<"\n">> ELSE @) \o line]
    ELSE st

ParseEnhancedFormat(lines) ==
    LET scaffold == ParseIndentationFormat(lines)
        st == FoldLines(EnhancedLine,
                        [root |-> scaffold.root, thrown |-> FALSE, currentFile |-> <<>>,
                         currentContent |-> <<>>, inContent |-> FALSE], lines)
    IN  IF scaffold.thrown THEN scaffold ELSE [thrown |-> FALSE, root |-> st.root]

GlyphChars == {"U251C", "U2514", "U2502"}

\* DetectTreeFormat with the path-list test taken before the indentation test
DetectTreeFormatSlashesFirst(text) ==
    LET lines == SelectSeq(GetLines(text), LAMBDA l : l # <<>>)
    IN  IF \E i \in 1..Len(text) : text[i] \in GlyphChars THEN "TreeCommand"
        ELSE IF Contains(text, StartMarker) \/ Contains(text, EndMarker) THEN "Enhanced"
        ELSE IF \E i \in 1..Len(lines) : \E k \in 1..Len(lines[i]) :
                    lines[i][k] \in {"/", "\\"} THEN "PathList"
        ELSE IF \E i \in 1..Len(lines) : lines[i][1] \in {" ", "\t"} THEN "Indentation"
        ELSE "Unknown"

DetectTreeFormat(text) ==
    LET lines == SelectSeq(GetLines(text), LAMBDA l : l # <<>>)
        hasSlashes == \E i \in 1..Len(lines) : \E k \in 1..Len(lines[i]) :
                            lines[i][k] \in {"/", "\\"}
        hasIndentation == \E i \in 1..Len(lines) : lines[i][1] \in {" ", "\t"}
    IN  IF \E i \in 1..Len(text) : text[i] \in GlyphChars THEN "TreeCommand"
        ELSE IF Contains(text, StartMarker) \/ Contains(text, EndMarker) THEN "Enhanced"
        ELSE IF lines = <<>> THEN "Unknown"
        ELSE IF hasSlashes /\ ~hasIndentation THEN "PathList"
        ELSE IF hasIndentation THEN "Indentation"
        ELSE "Unknown"

ParseTreeStructure(text, format) ==
    LET lines == GetLines(text)
    IN  CASE format = "TreeCommand" -> ParseTreeCommandFormat(lines)
          [] format = "Indentation" -> ParseIndentationFormat(lines)
          [] format = "PathList"    -> ParsePathListFormat(lines)
          [] format = "Enhanced"    -> ParseEnhancedFormat(lines)

\* GetTreeSummary: <<dirCount, fileCount>>
RECURSIVE GetTreeSummary(_)
GetTreeSummary(node) ==
    LET RECURSIVE Sum(_, _)
        Sum(i, k) == IF i > Len(node.children) THEN 0
                     ELSE GetTreeSummary(node.children[i])[k] + Sum(i + 1, k)
        own == IF node.isDirectory /\ node.name # RootName THEN <<1, 0>>
               ELSE IF ~node.isDirectory THEN <<0, 1>> ELSE <<0, 0>>
    IN  <<own[1] + Sum(1, 1), own[2] + Sum(1, 2)>>

-----------------------------------------------------------------------------
(* Tree mode: CreateDirectoryStructure and TryDirectoryStructureCreation   *)

SetOk(w, b) == [w EXCEPT !.ok = b]

\* the parent-directory loop of createNode: CreateDirectoryW on every
\* prefix of parentDir, results ignored
RECURSIVE CreateParentDirectories(_, _, _, _)
CreateParentDirectories(w, segments, i, currentPath) ==
    IF i > Len(segments) THEN w
    ELSE LET next == (IF currentPath # <<>> THEN currentPath \o <<"\\">> ELSE currentPath)
                     \o segments[i]
         IN  CreateParentDirectories(CreateDirectoryW(w, next), segments, i + 1, next)

\* the file branch of createNode without its GetFileAttributesW test
CreateFileNodeOverwriting(w, node, fullPath, st) ==
    IF node.content # <<>>
    THEN With(OpenTruncate(w, fullPath), LAMBDA w2 :
             IF w2.ok THEN SetOk(WriteAndClose(w2, fullPath, node.content), TRUE) ELSE w2)
    ELSE CreateFileNew(w, fullPath)

\* the file branch of createNode
CreateFileNode(w, node, fullPath, st) ==
    With(SubSeq(fullPath, 1, LastOf(fullPath, {"\\"})), LAMBDA parentDir :
    With(IF ~PathExists(w, parentDir) /\ st.createEmptyDirectories
         THEN CreateParentDirectories(w, GetLinesBy(parentDir, "\\"), 1, <<>>)
         ELSE w, LAMBDA w1 :
        IF PathExists(w1, fullPath) THEN SetOk(w1, TRUE)
        ELSE IF node.content # <<>>
             THEN With(OpenTruncate(w1, fullPath), LAMBDA w2 :
                      IF w2.ok THEN SetOk(WriteAndClose(w2, fullPath, node.content), TRUE)
                      ELSE w2)
             ELSE CreateFileNew(w1, fullPath)))

\* the directory branch of createNode up to its children loop
CreateDirectoryNode(w, node, fullPath, skipExisting) ==
    IF ~PathExists(w, fullPath) THEN CreateDirectoryW(w, fullPath)
    ELSE IF ~PathIsDirectory(w, fullPath) /\ ~skipExisting
         THEN SetOk(ShowToastNotification(w, "Error", "NIIF_ERROR"), FALSE)
         ELSE SetOk(w, TRUE)

RECURSIVE CreateNode(_, _, _, _, _)
RECURSIVE CreateChildren(_, _, _, _, _, _)

\* the createNode lambda; w.ok is its return value
CreateNode(w, node, parentPath, skipExisting, st) ==
    With(parentPath \o <<"\\">> \o node.name, LAMBDA fullPath :
        IF ~IsPathSafe(fullPath)
        THEN SetOk(ShowToastNotification(w, "Security Error", "NIIF_ERROR"), FALSE)
        ELSE IF node.isDirectory
             THEN With(CreateDirectoryNode(w, node, fullPath, skipExisting), LAMBDA w1 :
                      IF ~w1.ok THEN w1
                      ELSE CreateChildren(w1, node.children, 1, fullPath, skipExisting, st))
             ELSE CreateFileNode(w, node, fullPath, st))

\* the children loop with the result of createNode ignored
CreateChildrenIgnoringFailures(w, children, i, path, skipExisting, st) ==
    IF i > Len(children) THEN SetOk(w, TRUE)
    ELSE With(CreateNode(w, children[i], path, skipExisting, st), LAMBDA w1 :
             CreateChildren(w1, children, i + 1, path, skipExisting, st))

\* for (child : children) if (!createNode(child, path)) return false;
CreateChildren(w, children, i, path, skipExisting, st) ==
    IF i > Len(children) THEN SetOk(w, TRUE)
    ELSE With(CreateNode(w, children[i], path, skipExisting, st), LAMBDA w1 :
             IF ~w1.ok THEN w1
             ELSE CreateChildren(w1, children, i + 1, path, skipExisting, st))

CreateDirectoryStructure(w, root, basePath, st) ==
    IF root.children = <<>> THEN SetOk(w, FALSE)
    ELSE CreateChildren(w, root.children, 1, basePath, st.skipExistingDirectories, st)

\* GetSingleExplorerPath: the path of the first Explorer window found, or ""
GetSingleExplorerPath(w) ==
    IF Len(w.env.explorerPaths) >= 1 THEN w.env.explorerPaths[1] ELSE <<>>

LargeStructureThreshold == 10

\* w.ok is the return value; w.thrown is set when the parser threw
TryDirectoryStructureCreation(w, clipboardText, st) ==
    IF ~st.isCreateDirectoryStructureEnabled THEN SetOk(w, FALSE)
    ELSE
    With(DetectTreeFormat(clipboardText), LAMBDA format :
    With(Noted(w, "DetectTreeFormat", format), LAMBDA w1 :
        IF format = "Unknown" THEN SetOk(w1, FALSE)
        ELSE
    With(ParseTreeStructure(clipboardText, format), LAMBDA parsed :
    With(GetSingleExplorerPath(w), LAMBDA explorerPath :
        IF parsed.thrown THEN [SetOk(w1, FALSE) EXCEPT !.thrown = TRUE]
        ELSE IF explorerPath = <<>>
             THEN SetOk(ShowToastNotification(w1, "Error", "NIIF_ERROR"), FALSE)
        ELSE
    With(GetTreeSummary(parsed.root), LAMBDA counts :
    With(IF counts[1] + counts[2] > LargeStructureThreshold
         THEN Noted(w1, "MessageBoxW", "Confirm Directory Structure") ELSE w1, LAMBDA w2 :
        IF counts[1] + counts[2] > LargeStructureThreshold /\ w.env.confirm # "IDYES"
        THEN SetOk(w2, TRUE)
        ELSE
    With(CreateDirectoryStructure(w2, parsed.root, explorerPath, st), LAMBDA w3 :
        IF w3.ok
        THEN SetOk(ShowToastNotification(w3, "Structure Created", "NIIF_INFO"), TRUE)
        ELSE SetOk(ShowToastNotification(w3, "Error", "NIIF_ERROR"), FALSE))))))))

-----------------------------------------------------------------------------
(* FILE CONFLICT RESOLUTION and atomic replacement                         *)

\* the `counter < 1000` of GenerateUniqueFilename (line 659), scaled down
UniqueNameLimit == 3

\* the `counter < 1000` of the temp-name loops (lines 1499, 1549), scaled down
TempNameLimit == 3

\* _wsplitpath_s: [drive, dir, fname, ext] of a path
SplitPath(path) ==
    LET hasDrive == Len(path) >= 2 /\ path[2] = ":"
        drive == IF hasDrive THEN SubSeq(path, 1, 2) ELSE <<>>
        rest  == IF hasDrive THEN Substr(path, 2) ELSE path
        slash == LastOf(rest, Separators)
        dir   == SubSeq(rest, 1, slash + 1)
        file  == Substr(rest, slash + 1)
        dot   == LastOf(file, {"."})
    IN  [drive |-> drive, dir |-> dir,
         fname |-> IF dot = -1 THEN file ELSE SubSeq(file, 1, dot),
         ext   |-> IF dot = -1 THEN <<>> ELSE Substr(file, dot)]

\* a result switch whose default is Replace
ConflictActionDefaultReplace(button) ==
    CASE button = "IDNO"     -> "Skip"
      [] button = "IDCANCEL" -> "Rename"
      [] OTHER               -> "Replace"

\* the MessageBoxW result switch of ShowFileConflictDialog and of the batch
ConflictActionOf(button) ==
    CASE button = "IDYES"    -> "Replace"
      [] button = "IDNO"     -> "Skip"
      [] button = "IDCANCEL" -> "Rename"
      [] OTHER               -> "Skip"

\* ShowFileConflictDialog / the batch conflict MessageBoxW
ShowFileConflictDialog(w, title) == Noted(w, "MessageBoxW", title)

\* drive dir fname " (" counter ")" ext
NumberedPath(p, counter) ==
    p.drive \o p.dir \o p.fname \o <<" ", "(">> \o DecimalDigits(counter) \o <<")">> \o p.ext

\* the do-while loop of GenerateUniqueFilename, entered with `counter`
RECURSIVE UniqueNameLoop(_, _, _)
UniqueNameLoop(w, p, counter) ==
    LET newPath == NumberedPath(p, counter)
    IN  IF PathExists(w, newPath) /\ counter + 1 < UniqueNameLimit
        THEN UniqueNameLoop(w, p, counter + 1)
        ELSE newPath

GenerateUniqueFilename(w, originalPath) ==
    IF ~PathExists(w, originalPath) THEN originalPath
    ELSE UniqueNameLoop(w, SplitPath(originalPath), 1)

\* drive dir fname "_tmp_" counter ext
TempPath(p, counter) ==
    p.drive \o p.dir \o p.fname \o <<"_", "t", "m", "p", "_">> \o DecimalDigits(counter) \o p.ext

\* a temp name taken without looking whether it exists
TempNameUnchecked(w, p, counter) == <<TempPath(p, counter), counter + 1>>

\* the do-while loop of the temp name: <<tempPath, counter after the loop>>
RECURSIVE TempNameLoop(_, _, _)
TempNameLoop(w, p, counter) ==
    LET tempPath == TempPath(p, counter)
    IN  IF PathExists(w, tempPath) /\ counter + 1 < TempNameLimit
        THEN TempNameLoop(w, p, counter + 1)
        ELSE <<tempPath, counter + 1>>

\* a tail that leaves the temp file behind when the move fails
MoveWithoutCleanUp(w, tempPath, targetPath) == MoveFileExW(w, tempPath, targetPath)

\* the tail shared by both atomic helpers: move, and clean up on failure
MoveOrCleanUp(w, tempPath, targetPath) ==
    With(MoveFileExW(w, tempPath, targetPath), LAMBDA w1 :
        IF w1.ok THEN w1 ELSE SetOk(DeleteFileW(w1, tempPath), FALSE))

CreateFileWithContentAtomic(w, targetPath, content) ==
    With(TempNameLoop(w, SplitPath(targetPath), 0), LAMBDA picked :
    With(picked[1], LAMBDA tempPath :
        IF picked[2] >= TempNameLimit THEN SetOk(w, FALSE)
        ELSE
    With(OpenTruncate(w, tempPath), LAMBDA w1 :
        IF ~w1.ok THEN w1
        ELSE
    With(WriteAndClose(w1, tempPath, content), LAMBDA w2 :
        IF ~w2.ok THEN SetOk(DeleteFileW(w2, tempPath), FALSE)
        ELSE MoveOrCleanUp(w2, tempPath, targetPath)))))

CreateEmptyFileAtomic(w, targetPath) ==
    With(TempNameLoop(w, SplitPath(targetPath), 0), LAMBDA picked :
    With(picked[1], LAMBDA tempPath :
        IF picked[2] >= TempNameLimit THEN SetOk(w, FALSE)
        ELSE
    With(CreateFileNew(w, tempPath), LAMBDA w1 :
        IF ~w1.ok THEN w1
        ELSE MoveOrCleanUp(w1, tempPath, targetPath))))

-----------------------------------------------------------------------------
(* Heuristic classifier, batch expander and single-file / batch mode       *)

\* the tokens operator>> extracts from a stream over s
Tokens(s) == SelectSeq(SplitOn(s, StreamSpace), LAMBDA t : t # <<>>)

CountWords(str) == Len(Tokens(str))

\* an extension test that finds no extension in the set
NoExtensionAllowed(name, st) == FALSE

\* the lower-cased extension _wsplitpath_s finds, tested against the set
IsAllowedExtension(name, st) ==
    \E i \in 1..Len(st.allowedExtensions) :
        st.allowedExtensions[i] = ToLower(SplitPath(name).ext)

AlphaNumeric == {LowerChars[i] : i \in 1..26} \cup {UpperChars[i] : i \in 1..26} \cup Digits

\* the characters '.' of an ECMAScript regex does not match
LineTerminators == {"\n", "\r"}

\* std::regex_match(line, match, rx) for the pattern shapes of the model:
\*   wrap:    ^<pre>(.*)<suf>$      (icase)
\*   ext:     ^(.*\.[a-zA-Z0-9]+)$
\*   nogroup: ^.*$                  (a pattern without a capture group)
\* [matched, size (match.size()), g1 (match[1])]
RegexMatch(rx, line) ==
    CASE rx.kind = "wrap" ->
            LET n == Len(line)
                a == Len(rx.pre)
                b == Len(rx.suf)
                mid == SubSeq(line, a + 1, n - b)
                hit == /\ n >= a + b
                       /\ ToLower(SubSeq(line, 1, a)) = ToLower(rx.pre)
                       /\ ToLower(SubSeq(line, n - b + 1, n)) = ToLower(rx.suf)
                       /\ \A i \in 1..Len(mid) : mid[i] \notin LineTerminators
            IN  [matched |-> hit, size |-> 2, g1 |-> IF hit THEN mid ELSE <<>>]
      [] rx.kind = "ext" ->
            LET dot == LastOf(line, {"."})
                hit == /\ dot # -1
                       /\ dot + 1 < Len(line)
                       /\ \A i \in (dot + 2)..Len(line) : line[i] \in AlphaNumeric
                       /\ \A i \in 1..Len(line) : line[i] \notin LineTerminators
            IN  [matched |-> hit, size |-> 2, g1 |-> IF hit THEN line ELSE <<>>]
      [] rx.kind = "nogroup" ->
            [matched |-> \A i \in 1..Len(line) : line[i] \notin LineTerminators,
             size |-> 1, g1 |-> <<>>]

\* Priority 1: index of the first compiled pattern that matches with a
\* capture group, 0 when none does
FirstMatchingRegex(st, firstLine) ==
    LET Hit(i) == LET m == RegexMatch(st.compiledRegexes[i], firstLine)
                  IN  m.matched /\ m.size > 1
    IN  IF \E i \in 1..Len(st.compiledRegexes) : Hit(i)
        THEN CHOOSE i \in 1..Len(st.compiledRegexes) :
                Hit(i) /\ \A j \in 1..(i - 1) : ~Hit(j)
        ELSE 0

\* a line or word FindAdditionalFilenames accepts as one more filename
IsBatchFilename(name, st) ==
    /\ IsValidFilename(name)
    /\ IsAllowedExtension(name, st)
    /\ CountWords(name) <= st.heuristicWordCountLimit

\* the line-by-line loop of FindAdditionalFilenames from lines[i] on
RECURSIVE ScanFollowingLines(_, _, _, _)
ScanFollowingLines(lines, i, filenames, st) ==
    IF i > Len(lines) THEN filenames
    ELSE IF lines[i] = <<>> THEN ScanFollowingLines(lines, i + 1, filenames, st)
    ELSE IF IsBatchFilename(lines[i], st)
         THEN ScanFollowingLines(lines, i + 1, Append(filenames, lines[i]), st)
         ELSE filenames

FindAdditionalFilenames(text, startPos, st) ==
    LET raw   == GetLines(Substr(text, startPos))
        lines == [i \in 1..Len(raw) |-> Trim(raw[i], {" ", "\t", "\r"})]
        firstLineFilenames ==
            SelectSeq(Tokens(lines[1]), LAMBDA word : IsBatchFilename(word, st))
    IN  IF lines = <<>> THEN <<>>
        ELSE IF Len(firstLineFilenames) > 1 THEN firstLineFilenames
        ELSE ScanFollowingLines(lines, 2, firstLineFilenames, st)

\* Priorities 1-3 of TryFileGeneration:
\* [detected, rejected, tier, filename, content, endPos]; rejected is the
\* `return false` a detected tier takes when its feature is disabled
ClassifyFirstLine(clipboardText, st) ==
    LET firstLineEnd == FindStr(clipboardText, <<"\n">>)
        isMultiLine  == firstLineEnd # -1
        firstLine == Trim(IF isMultiLine THEN SubSeq(clipboardText, 1, firstLineEnd)
                          ELSE clipboardText, StreamSpace)
        content0 == IF isMultiLine THEN Substr(clipboardText, firstLineEnd + 1) ELSE <<>>
        lineEndPos == IF isMultiLine THEN firstLineEnd + 1 ELSE Len(clipboardText)
        rx == IF st.isCreateWithContentEnabled THEN FirstMatchingRegex(st, firstLine) ELSE 0
        words == Tokens(firstLine)
        firstWord == words[1]
        firstWordEnd == FindStr(firstLine, firstWord) + Len(firstWord)
        none == [detected |-> FALSE, rejected |-> FALSE, tier |-> 0, filename |-> <<>>,
                 content |-> content0, endPos |-> 0]
    IN  IF rx # 0
        THEN [none EXCEPT !.detected = TRUE, !.tier = 1,
                          !.filename = RegexMatch(st.compiledRegexes[rx], firstLine).g1,
                          !.endPos = lineEndPos]
        ELSE IF ~isMultiLine /\ words # <<>> /\ IsAllowedExtension(firstWord, st)
        THEN IF firstWordEnd < Len(firstLine)
             THEN [none EXCEPT !.detected = TRUE, !.tier = 2, !.filename = firstWord,
                               !.content = TrimLeft(Substr(firstLine, firstWordEnd), {" ", "\t"}),
                               !.endPos = firstWordEnd,
                               !.rejected = ~st.isCreateWithContentEnabled]
             ELSE [none EXCEPT !.detected = TRUE, !.tier = 2, !.filename = firstWord,
                               !.content = <<>>, !.endPos = firstWordEnd,
                               !.rejected = ~st.isCreateEmptyFileEnabled]
        ELSE IF IsAllowedExtension(firstLine, st)
                /\ CountWords(firstLine) <= st.heuristicWordCountLimit
        THEN [none EXCEPT !.detected = TRUE, !.tier = 3, !.filename = firstLine,
                          !.endPos = lineEndPos,
                          !.rejected = ~st.isCreateEmptyFileEnabled]
        ELSE none


\* "Create new files first": acc = [w, n], n counts the successes
RECURSIVE CreateNewFiles(_, _, _, _)
CreateNewFiles(acc, newFiles, i, explorerPath) ==
    IF i > Len(newFiles) THEN acc
    ELSE With(CreateFileNew(acc.w, explorerPath \o <<"\\">> \o newFiles[i]), LAMBDA w1 :
             CreateNewFiles([w |-> w1, n |-> acc.n + (IF w1.ok THEN 1 ELSE 0)],
                            newFiles, i + 1, explorerPath))

\* one existing file of the batch under the chosen action
HandleExistingFile(w, fullPath, conflictAction) ==
    CASE conflictAction = "Skip"    -> SetOk(w, FALSE)
      [] conflictAction = "Rename"  -> CreateFileNew(w, GenerateUniqueFilename(w, fullPath))
      [] conflictAction = "Replace" -> CreateEmptyFileAtomic(w, fullPath)

\* "Handle existing files based on user choice"
RECURSIVE HandleExistingFiles(_, _, _, _, _)
HandleExistingFiles(acc, existingFiles, i, explorerPath, conflictAction) ==
    IF i > Len(existingFiles) THEN acc
    ELSE With(HandleExistingFile(acc.w, explorerPath \o <<"\\">> \o existingFiles[i],
                                 conflictAction), LAMBDA w1 :
             HandleExistingFiles([w |-> w1, n |-> acc.n + (IF w1.ok THEN 1 ELSE 0)],
                                 existingFiles, i + 1, explorerPath, conflictAction))

\* the batch branch of TryFileGeneration (allFilenames.size() >= 2)
CreateBatch(w, allFilenames, st) ==
    With(GetSingleExplorerPath(w), LAMBDA explorerPath :
        IF explorerPath = <<>>
        THEN SetOk(ShowToastNotification(w, "Error", "NIIF_ERROR"), FALSE)
        ELSE
    With(SelectSeq(allFilenames,
                   LAMBDA f : ~PathExists(w, explorerPath \o <<"\\">> \o f)), LAMBDA newFiles :
    With(SelectSeq(allFilenames,
                   LAMBDA f : PathExists(w, explorerPath \o <<"\\">> \o f)),
         LAMBDA existingFiles :
    With(IF existingFiles # <<>>
         THEN ShowFileConflictDialog(w, "Multiple File Conflicts") ELSE w, LAMBDA w1 :
    With(IF existingFiles # <<>> THEN ConflictActionOf(w.env.answer) ELSE "Skip",
         LAMBDA conflictAction :
    With(CreateNewFiles([w |-> w1, n |-> 0], newFiles, 1, explorerPath), LAMBDA a1 :
    With(HandleExistingFiles(a1, existingFiles, 1, explorerPath, conflictAction), LAMBDA a2 :
        IF a2.n > 0
        THEN SetOk(ShowToastNotification(a2.w, "Multiple Files Created", "NIIF_INFO"), TRUE)
        ELSE SetOk(ShowToastNotification(a2.w, "File Creation", "NIIF_WARNING"), FALSE))))))))

\* the creation step of the single-file branch, after the conflict switch
CreateSingleFile(w, finalPath, content) ==
    IF content = <<>>
    THEN With(IF PathExists(w, finalPath) THEN CreateEmptyFileAtomic(w, finalPath)
              ELSE CreateFileNew(w, finalPath), LAMBDA w1 :
             IF w1.ok THEN SetOk(ShowToastNotification(w1, "File Created", "NIIF_INFO"), TRUE)
             ELSE w1)
    ELSE With(IF PathExists(w, finalPath)
              THEN CreateFileWithContentAtomic(w, finalPath, content)
              ELSE With(OpenTruncate(w, finalPath), LAMBDA o :
                        IF o.ok THEN WriteAndClose(o, finalPath, content) ELSE o),
              LAMBDA w1 :
             IF w1.ok THEN SetOk(ShowToastNotification(w1, "File Generated", "NIIF_INFO"), TRUE)
             ELSE w1)

\* the single-file branch of TryFileGeneration
CreateSingle(w, filename0, content) ==
    With(Trim(filename0, StreamSpace), LAMBDA filename :
        IF ~IsValidFilename(filename) THEN SetOk(w, TRUE)
        ELSE
    With(GetSingleExplorerPath(w), LAMBDA explorerPath :
        IF explorerPath = <<>> THEN SetOk(w, FALSE)
        ELSE
    With(explorerPath \o <<"\\">> \o filename, LAMBDA fullPath :
        IF ~PathExists(w, fullPath) THEN CreateSingleFile(w, fullPath, content)
        ELSE
    With(ShowFileConflictDialog(w, "File Already Exists"), LAMBDA w1 :
    With(ConflictActionOf(w.env.answer), LAMBDA action :
        IF action = "Skip" THEN SetOk(w1, TRUE)
        ELSE IF action = "Rename"
             THEN CreateSingleFile(w1, GenerateUniqueFilename(w1, fullPath), content)
        ELSE CreateSingleFile(w1, fullPath, content))))))

\* w.ok is the return value
TryFileGeneration(w, clipboardText, st) ==
    With(Noted(w, "TryFileGeneration", "called"), LAMBDA w0 :
        IF ~st.isCreateEmptyFileEnabled /\ ~st.isCreateWithContentEnabled THEN SetOk(w0, FALSE)
        ELSE IF Contains(clipboardText, <<"\n">>) /\ ~st.isCreateWithContentEnabled
             THEN SetOk(w0, FALSE)
        ELSE
    With(ClassifyFirstLine(clipboardText, st), LAMBDA c :
    With(Noted(w0, "Classified", c), LAMBDA w1 :
        IF ~c.detected \/ c.rejected THEN SetOk(w1, FALSE)
        ELSE
    With(IF st.isCreateEmptyFileEnabled
         THEN <<c.filename>> \o FindAdditionalFilenames(clipboardText, c.endPos, st)
         ELSE <<c.filename>>, LAMBDA allFilenames :
        IF Len(allFilenames) >= 2
        THEN CreateBatch(Noted(w1, "Batch", allFilenames), allFilenames, st)
        ELSE CreateSingle(Noted(w1, "Single", c.filename), c.filename, c.content)))))

\* a dispatcher that runs the heuristic whatever tree mode returned
ProcessWithoutShortCircuit(w, clipboardText, st) ==
    With(TryDirectoryStructureCreation(w, clipboardText, st), LAMBDA w1 :
        IF w1.thrown THEN w1 ELSE TryFileGeneration(w1, clipboardText, st))

\* ProcessClipboardChange with the clipboard text already fetched
ProcessClipboardChange(w, clipboardText, st) ==
    With(TryDirectoryStructureCreation(w, clipboardText, st), LAMBDA w1 :
        IF w1.thrown \/ w1.ok THEN w1
        ELSE TryFileGeneration(w1, clipboardText, st))

-----------------------------------------------------------------------------
(* Worlds, destinations and initial file systems shared by the             *)
(* specifications                                                          *)

World(f, env) == [fs |-> f, log |-> <<>>, ok |-> FALSE, thrown |-> FALSE, env |-> env]

\* a destination as PathCreateFromUrlW returns it, and one relative to the
\* current directory
DriveDestination == <<"C", ":", "\\", "d">>
RelativeDestination == <<"d">>
Destinations == {DriveDestination, RelativeDestination}

Directory == [isDir |-> TRUE, content |-> <<>>]
File(content) == [isDir |-> FALSE, content |-> content]
OldContent == <<"o", "l", "d">>

\* the drive, the current directory, both destination directories and one
\* file beside them
BaseFileSystem ==
    LET keys == {<<<<"C", ":">>>>, CurrentDirectory, Resolve(DriveDestination),
                 Resolve(RelativeDestination)}
        out  == Append(CurrentDirectory, <<"o", ".", "c">>)
    IN  [k \in keys \cup {out} |-> IF k = out THEN File(OldContent) ELSE Directory]

\* f with the entries of `more` (a function on canonical paths) under `dest`
Populate(f, dest, more) ==
    LET at(k) == Resolve(dest) \o k
    IN  [k \in DOMAIN f \cup {at(m) : m \in DOMAIN more} |->
            IF \E m \in DOMAIN more : at(m) = k
            THEN more[CHOOSE m \in DOMAIN more : at(m) = k] ELSE f[k]]

\* key lies strictly below the directory root
IsBelow(key, root) == Len(key) > Len(root) /\ SubSeq(key, 1, Len(root)) = root

\* the canonical paths whose entry differs between f0 and f1
ChangedKeys(f0, f1) ==
    {k \in DOMAIN f0 \cup DOMAIN f1 :
        ~(k \in DOMAIN f0 /\ k \in DOMAIN f1 /\ f0[k] = f1[k])}

IsOsCall(e) == e.op \in {"CreateDirectoryW", "CreateFileW", "wofstream", "WriteFile",
                         "close", "MoveFileExW", "DeleteFileW"}

IsCreateCall(e) == e.op \in {"CreateDirectoryW", "CreateFileW", "wofstream"}

HasTraversal(path) ==
    Contains(path, <<".", ".", "\\">>) \/ Contains(path, <<".", ".", "/">>)

-----------------------------------------------------------------------------
(* SpecTree: CreateDirectoryStructure applied to the tree a parser         *)
(* returns, for every text of TreeTexts, destination and initial content   *)
(* of the destination directory.                                           *)

\* the number of lines of a generated path list
MaxPathLines == 2

PathPool == {<<"a", "/", "b", "/", "c", ".", "c">>, <<"a", "/", "b", "/", "d", ".", "c">>, <<"a", "/", "e", ".", "c">>}

RECURSIVE JoinLines(_)
JoinLines(lines) ==
    IF Len(lines) = 1 THEN lines[1]
    ELSE lines[1] \o <<"\n">> \o JoinLines(Tail(lines))

PathListTexts ==
    {[format |-> "PathList", text |-> JoinLines(ls)] :
        ls \in UNION {[1..n -> PathPool] : n \in 1..MaxPathLines}}

OtherTreeTexts ==
    { [format |-> "Indentation", text |-> <<".", ".", "/", "x", ".", "c">>],
      [format |-> "Indentation", text |-> <<".", ".", "\\", "x", ".", "c">>],
      [format |-> "Indentation", text |-> <<".", ".", "/", "q", "/", "\n", " ", " ", "z", ".", "c">>],
      [format |-> "Indentation", text |-> <<".", ".", "/", "\n", " ", " ", "x", ".", "c">>],
      [format |-> "Indentation", text |-> <<"a", "\\", "b", ".", "c">>],
      [format |-> "Indentation", text |-> <<"s", "/", "\n", " ", " ", "m", ".", "c", "\n", " ", " ", "u", "/", "\n", " ", " ", " ", " ", "h", ".", "c">>],
      [format |-> "Indentation", text |-> <<"a", "/", "\n", " ", " ", "e", ".", "c", "\n", "f", ".", "c">>],
      [format |-> "PathList",    text |-> <<".", ".", "/", "x", ".", "c">>],
      [format |-> "PathList",    text |-> <<"a", "/", ".", ".", "/", ".", ".", "/", "x", ".", "c">>],
      [format |-> "TreeCommand", text |-> <<"s", "/", "\n", "U251C", "U2500", "U2500", " ", "m", ".", "c", "\n", "U2502", " ", " ", " ", "U2514", "U2500", "U2500", " ", "h", ".", "c">>],
      [format |-> "Enhanced",    text |-> <<"a", ".", "c", "\n", "-", "-", "-", "S", "T", "A", "R", "T", ":", "a", ".", "c", "-", "-", "-", "\n", "h", "i", "\n", "-", "-", "-", "E", "N", "D", ":", "a", ".", "c", "-", "-", "-">>] }

TreeTexts == PathListTexts \cup OtherTreeTexts

\* what the destination directory holds before the operation
DestinationContents ==
    { <<>>,
      [k \in {<<<<"a">>>>} |-> File(OldContent)],
      [k \in {<<<<"a", ".", "c">>>>} |-> File(OldContent)],
      [k \in {<<<<"a">>>>, <<<<"a">>, <<"e", ".", "c">>>>} |->
            IF Len(k) = 1 THEN Directory ELSE File(OldContent)] }

TreeSettings ==
    [isCreateEmptyFileEnabled : {TRUE}, isCreateWithContentEnabled : {TRUE},
     isCreateDirectoryStructureEnabled : {TRUE},
     allowedExtensions : {<<<<".", "c">>>>}, compiledRegexes : {<<>>},
     heuristicWordCountLimit : {5},
     createEmptyDirectories : BOOLEAN, skipExistingDirectories : BOOLEAN]

NoEnv == [deny |-> {}, answer |-> "IDNO", confirm |-> "IDYES", explorerPaths |-> <<>>]

InitTree ==
    /\ pc = "ready"
    /\ settings \in TreeSettings
    /\ \E t \in TreeTexts, dest \in Destinations, more \in DestinationContents :
         /\ fs = Populate(BaseFileSystem, dest, more)
         /\ input = [op |-> "CreateDirectoryStructure", text |-> t.text,
                     format |-> t.format, basePath |-> dest, fs0 |-> fs,
                     contents |-> more]
    /\ log = <<>>
    /\ result = "none"

\* ParseTreeStructure, then CreateDirectoryStructure on its tree
MaterializeTree ==
    /\ pc = "ready"
    /\ input.op = "CreateDirectoryStructure"
    /\ LET parsed == ParseTreeStructure(input.text, input.format)
           w == CreateDirectoryStructure(World(fs, NoEnv), parsed.root, input.basePath,
                                         settings)
       IN  /\ fs' = w.fs
           /\ log' = w.log
           /\ result' = w.ok
    /\ pc' = "done"
    /\ UNCHANGED <<settings, input>>

NextTree == MaterializeTree

SpecTree == InitTree /\ [][NextTree]_vars

-----------------------------------------------------------------------------
(* Properties of tree mode                                                 *)

\* every node below `node` with the full path createNode builds for it
RECURSIVE NodePaths(_, _)
NodePaths(node, parentPath) ==
    UNION { LET fullPath == parentPath \o <<"\\">> \o node.children[i].name
            IN  {[fullPath |-> fullPath, name |-> node.children[i].name,
                  isDirectory |-> node.children[i].isDirectory]}
                \cup NodePaths(node.children[i], fullPath)
            : i \in 1..Len(node.children) }

TreeDone == pc = "done" /\ input.op = "CreateDirectoryStructure"

InputTree == ParseTreeStructure(input.text, input.format).root

InputNodes == NodePaths(InputTree, input.basePath)

\* C1: tree mode never creates or modifies anything outside the
\* destination root, at no step of the operation; no OS call is made on a
\* path that holds "../" or "..\", so a node with such a full path and all
\* its descendants stay uncreated, and a tree that has such a node makes
\* CreateDirectoryStructure return false.
C1_TreeStaysInsideRoot ==
    TreeDone =>
        /\ \A k \in ChangedKeys(input.fs0, fs) : IsBelow(k, Resolve(input.basePath))
        /\ \A i \in 1..Len(log) :
              /\ \A k \in ChangedKeys(input.fs0, log[i].fs) :
                    IsBelow(k, Resolve(input.basePath))
              /\ IsOsCall(log[i]) => ~HasTraversal(log[i].path)
        /\ (\E n \in InputNodes : HasTraversal(n.fullPath)) => result = FALSE

\* a tree with a "../" node under a destination that passes the other
\* checks of IsPathSafe was rejected with the security toast
C1_Witness ==
    /\ TreeDone
    /\ input.basePath = RelativeDestination
    /\ \E n \in InputNodes : HasTraversal(n.fullPath) /\ ~n.isDirectory
    /\ \E i \in 1..Len(log) :
          log[i].op = "Toast" /\ log[i].path = <<"Security Error", "NIIF_ERROR">>
    /\ result = FALSE
    /\ fs = input.fs0

\* the directories and files a list of clean '/'-separated paths stands for
ExpectedFromPathList(f0, dest, lines) ==
    LET comps(i) == SplitOn(lines[i], {"/"})
        dirs  == UNION {{Resolve(dest) \o SubSeq(comps(i), 1, k) :
                            k \in 1..(Len(comps(i)) - 1)} : i \in 1..Len(lines)}
        files == {Resolve(dest) \o comps(i) : i \in 1..Len(lines)}
    IN  [k \in DOMAIN f0 \cup dirs \cup files |->
            IF k \in files THEN File(<<>>)
            ELSE IF k \in dirs THEN Directory ELSE f0[k]]

\* C2: a path list materialized into an existing empty destination
\* directory succeeds and leaves exactly one directory per proper prefix
\* and one empty file per path.
C2_PathListRoundTrip ==
    (TreeDone /\ input.format = "PathList" /\ input.contents = <<>>
        /\ \A n \in InputNodes : ~HasTraversal(n.fullPath))
    => /\ result = TRUE
       /\ fs = ExpectedFromPathList(input.fs0, input.basePath, GetLines(input.text))

\* the same round trip under the relative destination only
C2_RoundTripRelative ==
    input.basePath = RelativeDestination => C2_PathListRoundTrip

\* C4: no file or directory is created for a node whose name
\* IsValidFilename rejects.
C4_TreeNamesValidated ==
    TreeDone =>
        \A n \in InputNodes :
            ~IsValidFilename(n.name) =>
                ~\E i \in 1..Len(log) :
                    /\ IsCreateCall(log[i])
                    /\ log[i].ok
                    /\ log[i].path = n.fullPath

-----------------------------------------------------------------------------
(* SpecFile: TryFileGeneration applied to every text of FileTexts, under   *)
(* every feature setting, destination, button and initial content of the   *)
(* destination directory.                                                  *)

NameA == <<"a", ".", "c">>
NameB == <<"b", ".", "c">>

\* the patterns LoadSettings installs by default (lines 385-389)
DefaultRegexes ==
    << [kind |-> "wrap", pre |-> <<"/", "/", " ", "-", "-", "-", " ", "S", "T", "A", "R", "T", " ", "O", "F", " ", "F", "I", "L", "E", ":", " ">>, suf |-> <<" ", "-", "-", "-">>],
       [kind |-> "wrap", pre |-> <<"f", "i", "l", "e", ":", " ">>, suf |-> <<>>],
       [kind |-> "ext"] >>

FileTexts ==
    { <<"a", ".", "c">>,
      <<"a", ".", "c", " ", "h", "i">>,
      <<"a", ".", "c", " ", "b", ".", "c">>,
      <<"a", ".", "c", "\n", "b", ".", "c">>,
      <<"a", ".", "c", "\n", "h", "i">>,
      <<"b", ".", "c", " ", "a", ".", "c">>,
      <<".", ".", "\\", "x", ".", "c">>,
      <<".", ".", "\\", "x", ".", "c", " ", "b", ".", "c">>,
      <<".", ".", "\\", "o", ".", "c", " ", "b", ".", "c">>,
      <<"f", "i", "l", "e", ":", " ", "a", ".", "c", "\n", "h", "i">>,
      <<"h", "e", "l", "l", "o">> }

\* the directory entries <<name>> |-> File(...) for a set of names
FilesNamed(names) == [k \in {<<n>> : n \in names} |-> File(OldContent)]

\* the leaf name of "a (n).c" and of "a_tmp_n.c"
NumberedName(n) == NumberedPath(SplitPath(NameA), n)
TempName(n) == TempPath(SplitPath(NameA), n)

\* a.c with its first k rename candidates and first j temp names taken
TakenNames(k, j) ==
    {NameA} \cup {NumberedName(n) : n \in 1..k} \cup {TempName(n) : n \in 0..(j - 1)}

FileDestinationContents ==
    {<<>>, FilesNamed({NameB}), FilesNamed({NameA, NameB}),
     [k \in {<<NameA>>} |-> Directory]}
    \cup {FilesNamed(TakenNames(k, 0)) : k \in 0..(UniqueNameLimit - 1)}
    \cup {FilesNamed(TakenNames(0, j)) : j \in 1..TempNameLimit}

FileSettings ==
    [isCreateEmptyFileEnabled : BOOLEAN, isCreateWithContentEnabled : BOOLEAN,
     isCreateDirectoryStructureEnabled : {TRUE},
     allowedExtensions : {<<<<".", "c">>>>}, compiledRegexes : {<<>>, DefaultRegexes},
     heuristicWordCountLimit : {5},
     createEmptyDirectories : {TRUE}, skipExistingDirectories : {TRUE}]

\* what MessageBoxW can return for the conflict dialog; 0 is its failure
ConflictButtons == {"IDYES", "IDNO", "IDCANCEL", "0"}

ExplorerChoices == {<<>>, <<DriveDestination>>, <<RelativeDestination, DriveDestination>>}

InitFile ==
    /\ pc = "ready"
    /\ settings \in FileSettings
    /\ \E text \in FileTexts, paths \in ExplorerChoices, more \in FileDestinationContents,
          button \in ConflictButtons :
         /\ fs = IF paths = <<>> THEN BaseFileSystem
                 ELSE Populate(BaseFileSystem, paths[1], more)
         /\ input = [op |-> "TryFileGeneration", text |-> text, fs0 |-> fs,
                     env |-> [deny |-> {}, answer |-> button, confirm |-> "IDYES",
                              explorerPaths |-> paths]]
    /\ log = <<>>
    /\ result = "none"

GenerateFiles ==
    /\ pc = "ready"
    /\ input.op = "TryFileGeneration"
    /\ LET w == TryFileGeneration(World(fs, input.env), input.text, settings)
       IN  /\ fs' = w.fs
           /\ log' = w.log
           /\ result' = w.ok
    /\ pc' = "done"
    /\ UNCHANGED <<settings, input>>

NextFile == GenerateFiles

SpecFile == InitFile /\ [][NextFile]_vars

-----------------------------------------------------------------------------
(* Properties of single-file and batch mode                                *)

FileDone == pc = "done" /\ input.op = "TryFileGeneration"

FileDestination == GetSingleExplorerPath(input)

InDestination(name) == FileDestination \o <<"\\">> \o name

ExistedBefore(path) == PathExists([fs |-> input.fs0], path)

IsBatch == \E i \in 1..Len(log) : log[i].op = "Batch"

IsSingle == \E i \in 1..Len(log) : log[i].op = "Single"

\* the members of the batch, in order
BatchMembers == log[CHOOSE i \in 1..Len(log) : log[i].op = "Batch"].path

\* the trimmed filename of the single-file branch
SingleName == Trim(log[CHOOSE i \in 1..Len(log) : log[i].op = "Single"].path, StreamSpace)

\* the operation got as far as looking at its targets in the destination
Materializing ==
    /\ FileDestination # <<>>
    /\ IsBatch \/ (IsSingle /\ IsValidFilename(SingleName))

Targets ==
    IF IsBatch THEN {BatchMembers[i] : i \in 1..Len(BatchMembers)}
    ELSE IF IsSingle THEN {SingleName} ELSE {}

ExistingTargets == {t \in Targets : ExistedBefore(InDestination(t))}

ConflictPrompts ==
    {i \in 1..Len(log) :
        /\ log[i].op = "MessageBoxW"
        /\ log[i].path \in {"Multiple File Conflicts", "File Already Exists"}}

\* the action the pressed button stands for: Yes = Replace, No = Skip,
\* Cancel = Rename, anything else = Skip
ChosenAction ==
    IF input.env.answer = "IDYES" THEN "Replace"
    ELSE IF input.env.answer = "IDCANCEL" THEN "Rename"
    ELSE "Skip"

\* every entry the file system held before the operation is still there,
\* unchanged
NothingOverwritten ==
    \A k \in DOMAIN input.fs0 : k \in DOMAIN fs /\ fs[k] = input.fs0[k]

\* C3: every file TryFileGeneration creates or replaces lies directly in
\* the destination directory under a name IsValidFilename accepts; a batch
\* member with an invalid name is not created while the valid new members
\* are; an invalid name in single-file mode leaves the file system as it was.
C3_OnlyValidNamesMaterialized ==
    (FileDone /\ FileDestination # <<>>) =>
        /\ \A k \in ChangedKeys(input.fs0, fs) :
              /\ ParentOf(k) = Resolve(FileDestination)
              /\ IsValidFilename(k[Len(k)])
        /\ IsBatch =>
              \A m \in Targets :
                 /\ ~IsValidFilename(m) =>
                        ~\E i \in 1..Len(log) :
                            IsOsCall(log[i]) /\ log[i].ok /\ log[i].path = InDestination(m)
                 /\ (IsValidFilename(m) /\ ~ExistedBefore(InDestination(m))) =>
                        Resolve(InDestination(m)) \in DOMAIN fs
        /\ (IsSingle /\ ~IsValidFilename(SingleName)) => fs = input.fs0

\* the rename candidates of a path that were free before the operation
FreeCandidates(path) ==
    {n \in 1..(UniqueNameLimit - 1) : ~ExistedBefore(NumberedPath(SplitPath(path), n))}

\* C5: with the action Rename no pre-existing file is overwritten or
\* modified; in single-file mode the new file goes to the first free
\* "base (n).ext", and when no candidate within the bound is free the
\* operation fails and the file system is as it was.
C5_RenameNeverOverwrites ==
    (FileDone /\ ConflictPrompts # {} /\ ChosenAction = "Rename") =>
        /\ NothingOverwritten
        /\ IsSingle =>
              LET path == InDestination(SingleName)
                  free == FreeCandidates(path)
              IN  IF free = {}
                  THEN fs = input.fs0 /\ result = FALSE
                  ELSE LET n == CHOOSE c \in free : \A d \in free : c <= d
                       IN  ChangedKeys(input.fs0, fs) =
                              {Resolve(NumberedPath(SplitPath(path), n))}

\* the same with the exhausted single-file search left out
C5_RenameWhileCandidateFree ==
    (IsSingle /\ FreeCandidates(InDestination(SingleName)) = {}) \/ C5_RenameNeverOverwrites

\* C8: the conflict dialog is shown at most once per operation, and once
\* exactly when a target existed; it comes before every OS call of the
\* operation; in a batch every new member gets its CreateFileW whatever the
\* button, every existing member gets the chosen action, and a button other
\* than Yes / No / Cancel leaves every existing file as Skip does.
C8_SingleDecisionPoint ==
    FileDone =>
        /\ Cardinality(ConflictPrompts) <= 1
        /\ ConflictPrompts # {} <=> (Materializing /\ ExistingTargets # {})
        /\ \A i \in ConflictPrompts : \A j \in 1..Len(log) :
              IsOsCall(log[j]) => i < j
        /\ (IsBatch /\ FileDestination # <<>>) =>
              /\ \A m \in Targets \ ExistingTargets :
                    \E i \in 1..Len(log) :
                        log[i].op = "CreateFileW" /\ log[i].path = InDestination(m)
              /\ \A m \in ExistingTargets :
                    CASE ChosenAction = "Skip" ->
                            /\ ~\E i \in 1..Len(log) :
                                    IsOsCall(log[i]) /\ log[i].path = InDestination(m)
                            /\ fs[Resolve(InDestination(m))] =
                                    input.fs0[Resolve(InDestination(m))]
                      [] ChosenAction = "Replace" ->
                            \/ \E i \in 1..Len(log) :
                                    /\ log[i].op = "MoveFileExW"
                                    /\ log[i].path = InDestination(m)
                            \/ \A n \in 0..(TempNameLimit - 2) :
                                    ExistedBefore(TempPath(SplitPath(InDestination(m)), n))
                      [] ChosenAction = "Rename" ->
                            \E i \in 1..Len(log), n \in 1..(UniqueNameLimit - 1) :
                                /\ log[i].op = "CreateFileW"
                                /\ log[i].path = NumberedPath(SplitPath(InDestination(m)), n)
        /\ input.env.answer \notin {"IDYES", "IDNO", "IDCANCEL"} =>
              /\ NothingOverwritten
              /\ \A k \in ChangedKeys(input.fs0, fs) :
                    \E m \in Targets \ ExistingTargets : k = Resolve(InDestination(m))

\* a batch with an existing and a new member: one dialog, closed without
\* a button; the new member is created and nothing else changes
C8_Witness ==
    /\ FileDone
    /\ IsBatch
    /\ Cardinality(ConflictPrompts) = 1
    /\ input.env.answer = "0"
    /\ ExistingTargets # {}
    /\ Targets \ ExistingTargets # {}
    /\ ChangedKeys(input.fs0, fs) =
          {Resolve(InDestination(m)) : m \in Targets \ ExistingTargets}

-----------------------------------------------------------------------------
(* SpecAtomic: CreateFileWithContentAtomic and CreateEmptyFileAtomic on    *)
(* an existing target, with some temp names taken and with the OS          *)
(* refusing one kind of call.                                              *)

NewContents == {<<>>, <<"h", "i">>, <<"n", "e", "w">>, <<"h", "U2502", "i">>}

\* the destination holds the target a.c (a file or a directory) and the
\* first j temp names
AtomicDestinationContents ==
    {FilesNamed(TakenNames(0, j)) : j \in 0..TempNameLimit}
    \cup {[k \in {<<NameA>>} |-> Directory]}

\* the calls the OS may refuse during one operation
DenyChoices(dest) ==
    LET temps == {Resolve(dest \o <<"\\">> \o TempName(n)) : n \in 0..TempNameLimit}
    IN  { {},
          {<<"create", k>> : k \in temps},
          {<<"write", k>> : k \in temps},
          {<<"move", Resolve(dest \o <<"\\">> \o NameA)>>} }

InitAtomic ==
    /\ pc = "ready"
    /\ settings \in TreeSettings
    /\ settings.createEmptyDirectories /\ settings.skipExistingDirectories
    /\ \E dest \in Destinations, more \in AtomicDestinationContents,
          content \in NewContents, withContent \in BOOLEAN :
         /\ withContent \/ content = <<>>
         /\ fs = Populate(BaseFileSystem, dest, more)
         /\ \E deny \in DenyChoices(dest) :
              input = [op |-> IF withContent THEN "CreateFileWithContentAtomic"
                              ELSE "CreateEmptyFileAtomic",
                       targetPath |-> dest \o <<"\\">> \o NameA, content |-> content,
                       fs0 |-> fs,
                       env |-> [deny |-> deny, answer |-> "IDYES", confirm |-> "IDYES",
                                explorerPaths |-> <<dest>>]]
    /\ log = <<>>
    /\ result = "none"

ReplaceWithContent ==
    /\ pc = "ready"
    /\ input.op = "CreateFileWithContentAtomic"
    /\ LET w == CreateFileWithContentAtomic(World(fs, input.env), input.targetPath,
                                            input.content)
       IN  /\ fs' = w.fs
           /\ log' = w.log
           /\ result' = w.ok
    /\ pc' = "done"
    /\ UNCHANGED <<settings, input>>

ReplaceWithEmpty ==
    /\ pc = "ready"
    /\ input.op = "CreateEmptyFileAtomic"
    /\ LET w == CreateEmptyFileAtomic(World(fs, input.env), input.targetPath)
       IN  /\ fs' = w.fs
           /\ log' = w.log
           /\ result' = w.ok
    /\ pc' = "done"
    /\ UNCHANGED <<settings, input>>

NextAtomic == ReplaceWithContent \/ ReplaceWithEmpty

SpecAtomic == InitAtomic /\ [][NextAtomic]_vars

AtomicDone ==
    pc = "done" /\ input.op \in {"CreateFileWithContentAtomic", "CreateEmptyFileAtomic"}

TargetKey == Resolve(input.targetPath)

\* the sibling names "<base>_tmp_<counter><ext>" of the target
IsTempPathOfTarget(path) ==
    \E n \in 0..TempNameLimit : path = TempPath(SplitPath(input.targetPath), n)

\* C6: at every step of an atomic replace the target path holds the
\* complete old entry or the complete new content; every file the
\* operation creates or writes is a temp sibling "<base>_tmp_<n><ext>"
\* that did not exist before; on success the file system is the old one
\* with the new content at the target and nothing else.
C6_ReplaceIsAtomic ==
    AtomicDone =>
        /\ \A i \in 1..Len(log) :
              /\ TargetKey \in DOMAIN log[i].fs
              /\ log[i].fs[TargetKey] \in {input.fs0[TargetKey], File(input.content)}
              /\ log[i].op \in {"CreateFileW", "wofstream", "WriteFile", "close"} =>
                    /\ IsTempPathOfTarget(log[i].path)
                    /\ Resolve(log[i].path) \notin DOMAIN input.fs0
        /\ result = TRUE =>
              fs = [input.fs0 EXCEPT ![TargetKey] = File(input.content)]

\* a replace with content succeeded while a part of the new content was
\* on disk under the temp name and the old content under the target name
C6_Witness ==
    /\ AtomicDone
    /\ result = TRUE
    /\ input.content # <<>>
    /\ fs[TargetKey] = File(input.content)
    /\ \E i \in 1..Len(log) :
          /\ log[i].op = "WriteFile"
          /\ log[i].fs[Resolve(log[i].path)].content # input.content
          /\ log[i].fs[TargetKey] = File(OldContent)

\* C7: a failed atomic replace leaves the file system as it was: the
\* target unchanged and no temp file of the attempt on disk.
C7_FailedReplaceLeavesNothing ==
    (AtomicDone /\ result = FALSE) => fs = input.fs0

\* a replace failed after its temp file had been created, and the temp
\* file was deleted again
C7_Witness ==
    /\ AtomicDone
    /\ result = FALSE
    /\ fs = input.fs0
    /\ \E i, j \in 1..Len(log) :
          /\ i < j
          /\ log[i].op \in {"CreateFileW", "wofstream"} /\ log[i].ok
          /\ log[j].op = "DeleteFileW" /\ log[j].ok /\ log[j].path = log[i].path

-----------------------------------------------------------------------------
(* Spec: one clipboard event handled by ProcessClipboardChange, for every  *)
(* text of ClipboardTexts, feature setting, destination and answer to the  *)
(* dialogs.                                                                *)

ClipboardTexts ==
    { <<"a", ".", "c">>,
      <<" ", "a", ".", "c">>,
      <<"a", "/", "b", ".", "c">>,
      <<" ">>,
      <<"U2502">>,
      <<"\t", "a">>,
      <<" ", "a", "\n", "b", "\n", "c", "\n", "d", "\n", "e", "\n", "f", "\n", "g", "\n",
        "h", "\n", "i", "\n", "j", "\n", "k">>,
      <<"h", "e", "l", "l", "o">>,
      <<"s", "/", "\n", " ", " ", "m", ".", "c">>,
      <<"a", ".", "c", "\n", " ", "b", ".", "c">>,
      <<" ", "a", "\n", ".", ".", "\\", "x", "\n", "b">>,
      <<" ", "a", "\n", "q", "*", "/", "\n", "b">>,
      <<" ", "a", "\n", "q", "*", "\n", "b">> }

ClipboardSettings ==
    [isCreateEmptyFileEnabled : BOOLEAN, isCreateWithContentEnabled : BOOLEAN,
     isCreateDirectoryStructureEnabled : BOOLEAN,
     allowedExtensions : {<<<<".", "c">>>>}, compiledRegexes : {DefaultRegexes},
     heuristicWordCountLimit : {5},
     createEmptyDirectories : {TRUE}, skipExistingDirectories : BOOLEAN]

\* no Explorer window, or one showing a destination
ClipboardExplorerChoices == {<<>>, <<DriveDestination>>, <<RelativeDestination>>}

ClipboardDestinationContents == {<<>>, FilesNamed({NameA})}

Init ==
    /\ pc = "ready"
    /\ settings \in ClipboardSettings
    /\ \E text \in ClipboardTexts, paths \in ClipboardExplorerChoices,
          more \in ClipboardDestinationContents, button \in {"IDYES", "IDNO"},
          confirm \in {"IDYES", "IDNO"}, available \in BOOLEAN :
         /\ fs = IF paths = <<>> THEN BaseFileSystem
                 ELSE Populate(BaseFileSystem, paths[1], more)
         /\ input = [op |-> "ProcessClipboardChange", available |-> available,
                     text |-> text, fs0 |-> fs,
                     env |-> [deny |-> {}, answer |-> button, confirm |-> confirm,
                              explorerPaths |-> paths]]
    /\ log = <<>>
    /\ result = "none"

\* WM_CLIPBOARDUPDATE with CF_UNICODETEXT on the clipboard
ClipboardUpdate ==
    /\ pc = "ready"
    /\ input.op = "ProcessClipboardChange"
    /\ input.available
    /\ LET w == ProcessClipboardChange(World(fs, input.env), input.text, settings)
       IN  /\ fs' = w.fs
           /\ log' = w.log
           /\ result' = IF w.thrown THEN "thrown" ELSE "returned"
    /\ pc' = "done"
    /\ UNCHANGED <<settings, input>>

\* WM_CLIPBOARDUPDATE without text: the early returns of lines 1576-1581
ClipboardWithoutText ==
    /\ pc = "ready"
    /\ input.op = "ProcessClipboardChange"
    /\ ~input.available
    /\ pc' = "done"
    /\ UNCHANGED <<settings, fs, log, input, result>>

Next == ClipboardUpdate \/ ClipboardWithoutText

Spec == Init /\ [][Next]_vars

-----------------------------------------------------------------------------
(* Properties of the dispatcher                                            *)

ClipboardDone ==
    pc = "done" /\ input.op = "ProcessClipboardChange" /\ input.available

TreeFeatureOn == settings.isCreateDirectoryStructureEnabled

DetectedFormat == DetectTreeFormat(input.text)

ParsedClipboard == ParseTreeStructure(input.text, DetectedFormat)

HeuristicInvoked == \E i \in 1..Len(log) : log[i].op = "TryFileGeneration"

HeuristicClassified == \E i \in 1..Len(log) : log[i].op = "Classified"

Toasts(title) == {i \in 1..Len(log) : log[i].op = "Toast" /\ log[i].path[1] = title}

ErrorToasts == {i \in 1..Len(log) : log[i].op = "Toast" /\ log[i].path[2] = "NIIF_ERROR"}

\* the large-structure confirmation was shown and not answered with Yes
ConfirmationDeclined ==
    /\ \E i \in 1..Len(log) :
          log[i].op = "MessageBoxW" /\ log[i].path = "Confirm Directory Structure"
    /\ input.env.confirm # "IDYES"

EmptyTreeDetected ==
    /\ DetectedFormat # "Unknown"
    /\ ~ParsedClipboard.thrown
    /\ ParsedClipboard.root.children = <<>>

\* C10: a text with a tree format whose tree has no node is handed to
\* the heuristic, and, a destination being there, no error notification is
\* sent for it.
C10_EmptyTreeFallsBackSilently ==
    (ClipboardDone /\ TreeFeatureOn /\ EmptyTreeDetected) =>
        /\ HeuristicInvoked
        /\ GetSingleExplorerPath(input) # <<>> => ErrorToasts = {}

-----------------------------------------------------------------------------
(* Properties of the destination provider                                  *)

\* C11: when GetSingleExplorerPath returns no path, the clipboard event
\* changes nothing in the file system and sends no error notification,
\* in tree mode, in batch mode and in single-file mode.
C11_NoDestinationIsSilent ==
    (ClipboardDone /\ GetSingleExplorerPath(input) = <<>>) =>
        /\ fs = input.fs0
        /\ ErrorToasts = {}

\* C12: TryFileGeneration creates something only when the Explorer windows
\* give exactly one candidate directory.
C12_ExactlyOneCandidate ==
    (FileDone /\ Len(input.env.explorerPaths) # 1) => fs = input.fs0

-----------------------------------------------------------------------------
(* SpecPure: DetectTreeFormat and IsValidFilename applied to every text    *)
(* and name of a bounded set; result is the value returned.                *)

\* the length of the generated clipboard texts
MaxTextLen == 3

\* the length of the generated names
MaxNameLen == 3

DetectAlphabet == {" ", "\t", "\n", "/", "\\", "a", "U251C", "U2514", "U2502"}

MarkerAffixes == {<<>>, <<"U2502">>, <<" ">>, <<"a", "/", "b">>, <<"\n", " ", "a">>}

DetectTexts ==
    UNION {[1..n -> DetectAlphabet] : n \in 0..MaxTextLen}
    \cup {pre \o marker \o suf : pre \in MarkerAffixes, suf \in MarkerAffixes,
                                 marker \in {StartMarker, EndMarker}}

NameAlphabet == {"a", ".", "/", "\\", ":", "\t", "*", "1"}

\* a name of n characters
LongName(n) == [i \in 1..n |-> "x"]

NamedNames ==
    { <<"C", "O", "N">>, <<"c", "o", "n">>, <<"c", "o", "n", ".", "t", "x", "t">>,
      <<"C", "o", "n", ".", "a", ".", "b">>, <<"P", "R", "N">>, <<"a", "u", "x", ".", "c">>,
      <<"N", "U", "L">>, <<"n", "u", "l", "l">>, <<"C", "O", "M">>, <<"C", "O", "M", "1">>,
      <<"c", "o", "m", "1", "2", ".", "c">>, <<"C", "O", "M", "a">>, <<"C", "O", "M", "1", "a">>,
      <<"L", "P", "T">>, <<"l", "p", "t", "9">>, <<"L", "P", "T", "x", ".", "c">>,
      <<"a", ".", ".">>, <<".", ".", "\\", "x">>, <<"a", "/", "b">>,
      <<"n", "o", "t", "e", "s", ".", "m", "d">>, <<"a", " ", "b", ".", "c">>,
      <<"a", "?", "b">>, <<"a", "\"", "b">>, <<"a", "<", "b">>, <<"a", ">", "b">>,
      <<"a", "|", "b">>, <<"a", "\r", "b">>, <<"a", "\n">>,
      LongName(MaxFilenameLength), LongName(MaxFilenameLength + 1), LongName(300) }

ValidatedNames == UNION {[1..n -> NameAlphabet] : n \in 0..MaxNameLen} \cup NamedNames

PureSettings == CHOOSE s \in TreeSettings : TRUE

InitPure ==
    /\ pc = "ready"
    /\ settings = PureSettings
    /\ fs = BaseFileSystem
    /\ \/ \E text \in DetectTexts :
             input = [op |-> "DetectTreeFormat", text |-> text, fs0 |-> fs]
       \/ \E name \in ValidatedNames :
             input = [op |-> "IsValidFilename", text |-> name, fs0 |-> fs]
    /\ log = <<>>
    /\ result = "none"

\* DetectTreeFormat(text): reads its argument only
Detect ==
    /\ pc = "ready"
    /\ input.op = "DetectTreeFormat"
    /\ result' = DetectTreeFormat(input.text)
    /\ pc' = "done"
    /\ UNCHANGED <<settings, fs, log, input>>

\* IsValidFilename(filename)
Validate ==
    /\ pc = "ready"
    /\ input.op = "IsValidFilename"
    /\ result' = IsValidFilename(input.text)
    /\ pc' = "done"
    /\ UNCHANGED <<settings, fs, log, input>>

NextPure == Detect \/ Validate

SpecPure == InitPure /\ [][NextPure]_vars

-----------------------------------------------------------------------------
(* Properties of DetectTreeFormat and IsValidFilename                      *)

DetectDone == pc = "done" /\ input.op = "DetectTreeFormat"

\* position i is the first character of a non-empty line of text
StartsLine(text, i) == text[i] # "\n" /\ (i = 1 \/ text[i - 1] = "\n")

\* the decision list of the claim, read off the text itself
DecisionList(text) ==
    IF \E i \in 1..Len(text) : text[i] \in {"U251C", "U2514", "U2502"} THEN "TreeCommand"
    ELSE IF Contains(text, <<"-", "-", "-", "S", "T", "A", "R", "T", ":">>)
            \/ Contains(text, <<"-", "-", "-", "E", "N", "D", ":">>) THEN "Enhanced"
    ELSE IF \E i \in 1..Len(text) : StartsLine(text, i) /\ text[i] \in {" ", "\t"}
         THEN "Indentation"
    ELSE IF \E i \in 1..Len(text) : text[i] \in {"/", "\\"} THEN "PathList"
    ELSE "Unknown"

\* C13: DetectTreeFormat returns what the first-match decision list gives
\* (glyphs, then content markers, then a non-empty line beginning with a
\* space or tab, then a slash, else no format), and leaves settings and
\* file system as they were.
C13_DetectIsDecisionList ==
    DetectDone =>
        /\ result = DecisionList(input.text)
        /\ fs = input.fs0 /\ settings = PureSettings /\ log = <<>>

\* a text with a slash and an indented line, detected as Indentation
C13_Witness ==
    /\ DetectDone
    /\ \E i \in 1..Len(input.text) : input.text[i] \in {"/", "\\"}
    /\ \E i \in 1..Len(input.text) : StartsLine(input.text, i) /\ input.text[i] = " "
    /\ \A i \in 1..Len(input.text) : input.text[i] \notin {"U251C", "U2514", "U2502"}
    /\ result = "Indentation"

ValidateDone == pc = "done" /\ input.op = "IsValidFilename"

\* the text before the last '.', or the whole name, in upper case
UpperBase(name) ==
    LET dots == {i \in 1..Len(name) : name[i] = "."}
    IN  ToUpper(IF dots = {} THEN name
                ELSE SubSeq(name, 1, (CHOOSE i \in dots : \A j \in dots : j <= i) - 1))

\* prefix followed by one or more digits
IsNumbered(base, prefix) ==
    /\ Len(base) > Len(prefix)
    /\ SubSeq(base, 1, Len(prefix)) = prefix
    /\ \A i \in (Len(prefix) + 1)..Len(base) :
          base[i] \in {"0", "1", "2", "3", "4", "5", "6", "7", "8", "9"}

\* the rejection conditions of the claim
Rejected(name) ==
    \/ name = <<>>
    \/ Len(name) > 255
    \/ \E i \in 1..Len(name) : name[i] \in {"\\", "/", ":", "*", "?", "\"", "<", ">", "|"}
    \/ \E i \in 1..Len(name) : name[i] \in {"\t", "\n", "\r"}
    \/ Contains(name, <<".", ".", "/">>) \/ Contains(name, <<".", ".", "\\">>)
    \/ (Len(name) >= 2 /\ name[2] = ":")
    \/ name[Len(name)] = "."
    \/ UpperBase(name) \in {<<"C", "O", "N">>, <<"P", "R", "N">>, <<"A", "U", "X">>,
                            <<"N", "U", "L">>}
    \/ IsNumbered(UpperBase(name), <<"C", "O", "M">>)
    \/ IsNumbered(UpperBase(name), <<"L", "P", "T">>)

\* C14: IsValidFilename returns false exactly for the names the claim's
\* conditions reject, and so rejects CON, con.txt, a.., ..\x, a/b and a
\* 300-character name and accepts notes.md.
C14_ValidExactlyWhenNotRejected ==
    ValidateDone =>
        /\ result = ~Rejected(input.text)
        /\ input.text \in {<<"C", "O", "N">>, <<"c", "o", "n", ".", "t", "x", "t">>,
                           <<"a", ".", ".">>, <<".", ".", "\\", "x">>, <<"a", "/", "b">>,
                           LongName(300)} => result = FALSE
        /\ input.text = <<"n", "o", "t", "e", "s", ".", "m", "d">> => result = TRUE

\* con.txt was rejected for its base name alone
C14_Witness ==
    /\ ValidateDone
    /\ input.text = <<"c", "o", "n", ".", "t", "x", "t">>
    /\ result = FALSE

-----------------------------------------------------------------------------
(* Properties of tree mode: existing entities and failures                 *)

\* the files the file system held before the operation
FilesBefore == {k \in DOMAIN input.fs0 : ~input.fs0[k].isDir}

\* the nodes directly below the root that carry embedded content
ContentNodes == {i \in 1..Len(InputTree.children) : InputTree.children[i].content # <<>>}

\* C15: tree mode leaves every file that existed before the operation as
\* it was, at every step: a file node whose target exists is neither
\* truncated nor replaced, with or without embedded content.
C15_ExistingFilesUntouched ==
    TreeDone =>
        \A k \in FilesBefore :
            /\ k \in DOMAIN fs /\ fs[k] = input.fs0[k]
            /\ \A i \in 1..Len(log) : k \in DOMAIN log[i].fs /\ log[i].fs[k] = input.fs0[k]

\* a file node with embedded content met an existing file at its target
\* and no OS call was made on it, while the operation went on to its next
\* node
C15_Witness ==
    /\ TreeDone
    /\ \E j \in 1..Len(log) : IsOsCall(log[j])
    /\ \E i \in ContentNodes :
          LET target == input.basePath \o <<"\\">> \o InputTree.children[i].name
          IN  /\ Resolve(target) \in FilesBefore
              /\ fs[Resolve(target)].content = OldContent
              /\ \A j \in 1..Len(log) : log[j].path # target

\* the directory nodes whose name a file held before the operation
OccupiedNodes ==
    {n \in InputNodes : n.isDirectory /\ IsPathSafe(n.fullPath)
                        /\ Resolve(n.fullPath) \in FilesBefore}

\* path lies below the directory path dir
IsPathBelow(path, dir) ==
    Len(path) > Len(dir) + 1 /\ SubSeq(path, 1, Len(dir) + 1) = dir \o <<"\\">>

\* C16: a directory node whose name is occupied by a file: with
\* skipExistingDirectories set no call fails on or below the node, with
\* or without children, so the operation does not fail because of it;
\* with the policy unset the operation fails; the occupying file stays as
\* it was.
C16_OccupiedDirectoryName ==
    (TreeDone /\ OccupiedNodes # {}) =>
        /\ settings.skipExistingDirectories =>
              \A n \in OccupiedNodes : \A i \in 1..Len(log) :
                  (IsOsCall(log[i]) /\ ~log[i].ok) =>
                      (log[i].path # n.fullPath /\ ~IsPathBelow(log[i].path, n.fullPath))
        /\ ~settings.skipExistingDirectories => result = FALSE
        /\ \A n \in OccupiedNodes : fs[Resolve(n.fullPath)] = input.fs0[Resolve(n.fullPath)]

-----------------------------------------------------------------------------
(* Properties of a clipboard event handled in tree mode                    *)

\* the history of tree mode: what precedes the call of TryFileGeneration
TreePhase ==
    IF HeuristicInvoked
    THEN 1..((CHOOSE i \in 1..Len(log) : log[i].op = "TryFileGeneration") - 1)
    ELSE 1..Len(log)

\* the failure of a node: an unsafe path, or a directory or file that
\* could not be created
NodeFailed(e) ==
    \/ IsCreateCall(e) /\ ~e.ok
    \/ e.op = "Toast" /\ e.path[1] = "Security Error"

\* C17: after the first failing node of a tree no further OS call is made
\* by tree mode, no success is reported, the error notification of
\* TryDirectoryStructureCreation follows, and what was created before the
\* failure is still there when tree mode returns.
C17_FirstFailureAborts ==
    (ClipboardDone /\ TreeFeatureOn) =>
        \A i \in TreePhase :
            NodeFailed(log[i]) =>
                /\ \A j \in TreePhase : j > i => ~IsOsCall(log[j]) /\ ~NodeFailed(log[j])
                /\ \E j \in TreePhase : j > i /\ log[j].op = "Toast"
                                        /\ log[j].path = <<"Error", "NIIF_ERROR">>
                /\ Toasts("Structure Created") = {}
                /\ \A h \in 1..(i - 1) : \A k \in DOMAIN log[h].fs :
                       \A j \in TreePhase : j > h => k \in DOMAIN log[j].fs

\* a first node was created, the second failed, the third was never
\* attempted, and the first is still there
C17_Witness ==
    /\ ClipboardDone /\ TreeFeatureOn
    /\ \E h, i \in TreePhase :
          /\ h < i
          /\ log[h].op = "CreateFileW" /\ log[h].ok
          /\ NodeFailed(log[i])
          /\ Resolve(log[h].path) \in DOMAIN fs
          /\ Resolve(log[h].path) \notin DOMAIN input.fs0
    /\ Resolve(GetSingleExplorerPath(input) \o <<"\\", "b">>) \notin DOMAIN fs
    /\ Toasts("Error") # {}

-----------------------------------------------------------------------------
(* SpecClassify: TryFileGeneration on the texts that tell the three        *)
(* priority tiers apart, under every feature setting, two extension sets   *)
(* and three pattern lists, with an empty destination directory.           *)

Readme == <<"r", "e", "a", "d", "m", "e", ".", "t", "x", "t">>

ReadmeHello == <<"r", "e", "a", "d", "m", "e", ".", "t", "x", "t", "\n", "H", "e", "l", "l", "o">>

ClassifyTexts ==
    { Readme, ReadmeHello,
      <<".", "c">>,
      <<"a", ".", "c", "\n", "h", "i">>,
      <<"m", "y", " ", "n", "o", "t", "e", "s", ".", "c">>,
      <<"m", "y", " ", "n", "o", "t", "e", "s", ".", "t", "x", "t", "\n", "H", "e", "l", "l", "o">>,
      <<"r", "e", "a", "d", "m", "e", ".", "t", "x", "t", " ", "H", "e", "l", "l", "o">>,
      <<"/", "/", " ", "-", "-", "-", " ", "S", "T", "A", "R", "T", " ", "O", "F", " ", "F", "I", "L", "E", ":", " ", " ", "-", "-", "-">>,
      <<"f", "i", "l", "e", ":", " ", "a", ".", "c", "\n", "h", "i">>,
      <<"o", "n", "e", " ", "t", "w", "o", " ", "t", "h", "r", "e", "e", " ", "f", "o", "u", "r", " ", "f", "i", "v", "e", " ", "s", "i", "x", ".", "t", "x", "t">>,
      <<"a", ".", "c", " ", "b", ".", "c", " ", "c", ".", "c">>,
      <<" ", " ", "a", ".", "c", " ", "b", ".", "c", " ", "c", ".", "c">>,
      <<"x", ".", "c", "\n", "a", ".", "c", " ", "b", ".", "c">>,
      <<"a", ".", "c", "\n", "h", "e", "l", "l", "o", "\n", "b", ".", "c">>,
      <<"a", ".", "c", "\n", "\n", "b", ".", "c", "\n", "h", "e", "l", "l", "o", "\n", "c", ".", "c">>,
      <<"a", ".", "c", "\n", "h", "e", "l", "l", "o">> }

\* ^(.*)\.c$ followed by the extension pattern
SuffixRegexes == << [kind |-> "wrap", pre |-> <<>>, suf |-> <<".", "c">>], [kind |-> "ext"] >>

ClassifySettings ==
    [isCreateEmptyFileEnabled : BOOLEAN, isCreateWithContentEnabled : BOOLEAN,
     isCreateDirectoryStructureEnabled : {TRUE},
     allowedExtensions : {<<<<".", "t", "x", "t">>>>, <<<<".", "c">>>>},
     compiledRegexes : {<<>>, DefaultRegexes, SuffixRegexes},
     heuristicWordCountLimit : {5},
     createEmptyDirectories : {TRUE}, skipExistingDirectories : {TRUE}]

InitClassify ==
    /\ pc = "ready"
    /\ settings \in ClassifySettings
    /\ fs = Populate(BaseFileSystem, RelativeDestination, <<>>)
    /\ \E text \in ClassifyTexts :
         input = [op |-> "TryFileGeneration", text |-> text, fs0 |-> fs,
                  env |-> [deny |-> {}, answer |-> "IDNO", confirm |-> "IDYES",
                           explorerPaths |-> <<RelativeDestination>>]]
    /\ log = <<>>
    /\ result = "none"

SpecClassify == InitClassify /\ [][NextFile]_vars

-----------------------------------------------------------------------------
(* Properties of the classifier                                            *)

\* what the three tiers decided: the record ClassifyFirstLine returned
Classification == log[CHOOSE i \in 1..Len(log) : log[i].op = "Classified"].path

\* clipboardText.substr(first_line_end + 1), empty for a single line
TextAfterFirstLine(text) ==
    IF \E i \in 1..Len(text) : text[i] = "\n"
    THEN SubSeq(text, (CHOOSE i \in 1..Len(text) :
                          text[i] = "\n" /\ \A j \in 1..(i - 1) : text[j] # "\n") + 1,
                Len(text))
    ELSE <<>>

\* C18: a text classified by Priority 1 has a non-empty group 1 as its
\* filename and the text after the first line as its content;
\* "readme.txt\nHello" under the default patterns gives readme.txt and
\* "Hello".
C18_GroupOneIsFilename ==
    (FileDone /\ HeuristicClassified) =>
        /\ Classification.tier = 1 =>
              /\ Classification.filename # <<>>
              /\ Classification.content = TextAfterFirstLine(input.text)
        /\ (input.text = ReadmeHello /\ settings.compiledRegexes = DefaultRegexes) =>
              /\ Classification.tier = 1
              /\ Classification.filename = Readme
              /\ Classification.content = <<"H", "e", "l", "l", "o">>

\* C19: a text classified by Priority 3 creates nothing but empty files,
\* and nothing at all when the empty-file feature is disabled.
C19_PriorityThreeFilesAreEmpty ==
    (FileDone /\ HeuristicClassified /\ Classification.detected /\ Classification.tier = 3) =>
        /\ \A k \in ChangedKeys(input.fs0, fs) : fs[k].content = <<>>
        /\ ~settings.isCreateEmptyFileEnabled => fs = input.fs0

\* "readme.txt" with the extensions {.txt}, the limit 5 and no pattern
\* that matches
ReadmeCase ==
    /\ FileDone
    /\ input.text = Readme
    /\ settings.allowedExtensions = <<<<".", "t", "x", "t">>>>
    /\ settings.heuristicWordCountLimit = 5
    /\ settings.compiledRegexes = <<>> \/ ~settings.isCreateWithContentEnabled
    /\ HeuristicClassified

ReadmeKey == Resolve(RelativeDestination \o <<"\\">> \o Readme)

\* the one change of the file system is the new empty file readme.txt
ReadmeCreatedEmpty ==
    /\ ChangedKeys(input.fs0, fs) = {ReadmeKey}
    /\ ReadmeKey \notin DOMAIN input.fs0
    /\ fs[ReadmeKey] = File(<<>>)

\* C20 as stated: "readme.txt" is classified by Priority 3 and the empty
\* file readme.txt is created.
C20_ReadmeViaPriorityThree ==
    ReadmeCase => (Classification.tier = 3 /\ ReadmeCreatedEmpty)

\* C20: "readme.txt" is classified by Priority 2, by its branch without
\* content, and neither by Priority 1 nor by Priority 3; with the
\* empty-file feature enabled the empty file readme.txt is created, with
\* the feature disabled nothing is.
C20_ReadmeViaFirstWordTier ==
    ReadmeCase =>
        /\ Classification.tier = 2
        /\ Classification.filename = Readme
        /\ Classification.content = <<>>
        /\ settings.isCreateEmptyFileEnabled => ReadmeCreatedEmpty
        /\ ~settings.isCreateEmptyFileEnabled => fs = input.fs0

C20_Witness ==
    /\ ReadmeCase
    /\ settings.isCreateEmptyFileEnabled
    /\ Classification.tier = 2
    /\ ReadmeCreatedEmpty
    /\ result = TRUE

-----------------------------------------------------------------------------
(* Properties of the batch expander                                        *)

\* where the classified prefix ends in the clipboard text: behind the
\* first word for Priority 2, behind the first line otherwise
ConsumedPrefixEnd ==
    IF Classification.tier = 2
    THEN FindStr(input.text, Classification.filename) + Len(Classification.filename)
    ELSE Classification.endPos

\* the text after the consumed prefix, split into trimmed lines
FollowingLines ==
    LET raw == GetLines(Substr(input.text, ConsumedPrefixEnd))
    IN  [i \in 1..Len(raw) |-> Trim(raw[i], {" ", "\t", "\r"})]

\* a filename was classified and the expander was run on the rest
Expanded ==
    /\ FileDone
    /\ HeuristicClassified
    /\ Classification.detected
    /\ ~Classification.rejected
    /\ settings.isCreateEmptyFileEnabled

Range(seq) == {seq[i] : i \in 1..Len(seq)}

\* the first following line holds two or more tokens, each of them a
\* valid filename with an allowed extension
SpaceSeparatedCase ==
    /\ Expanded
    /\ FollowingLines # <<>>
    /\ Len(Tokens(FollowingLines[1])) >= 2
    /\ \A word \in Range(Tokens(FollowingLines[1])) : IsBatchFilename(word, settings)

\* C21: in the space-separated case the batch is exactly the tokens of
\* the first following line, and the classified filename is not one of
\* its members.
C21_SpaceSeparatedBatch ==
    SpaceSeparatedCase =>
        /\ IsBatch
        /\ BatchMembers = Tokens(FollowingLines[1])
        /\ Classification.filename \notin Range(BatchMembers)

\* the following lines that are not blank
NonBlankLines == SelectSeq(FollowingLines, LAMBDA line : line # <<>>)

\* the non-blank following lines in front of the first one that is no
\* filename
LeadingFilenames ==
    LET n == CHOOSE k \in 0..Len(NonBlankLines) :
                 /\ \A j \in 1..k : IsBatchFilename(NonBlankLines[j], settings)
                 /\ k = Len(NonBlankLines) \/ ~IsBatchFilename(NonBlankLines[k + 1], settings)
    IN  SubSeq(NonBlankLines, 1, n)

\* the first following line is no space-separated list of filenames
LineByLineCase ==
    /\ Expanded
    /\ FollowingLines # <<>>
    /\ ~\E a, b \in 1..Len(Tokens(FollowingLines[1])) :
            /\ a # b
            /\ IsBatchFilename(Tokens(FollowingLines[1])[a], settings)
            /\ IsBatchFilename(Tokens(FollowingLines[1])[b], settings)

\* C22: in the line-by-line case the names handled are the classified
\* name followed by the non-blank following lines in front of the first
\* line that is no filename; when there is none of them the clipboard is
\* handled as a single file.
C22_LineByLineBatch ==
    LineByLineCase =>
        IF LeadingFilenames = <<>>
        THEN IsSingle /\ ~IsBatch
        ELSE IsBatch /\ BatchMembers = <<Classification.filename>> \o LeadingFilenames

-----------------------------------------------------------------------------
(* SpecParse: the four sub-parsers as functions of their lines.  The       *)
(* input is a sequence of at most MaxParseLines lines drawn from a pool    *)
(* of lines per parser, or one of a few longer texts.                      *)

MaxParseLines == 3

LinesOver(pool) == UNION {[1..n -> pool] : n \in 0..MaxParseLines}

IndentationPool ==
    { <<>>, <<"a", "/">>, <<" ", "b", "/">>, <<" ", "c">>, <<" ", " ", "d">>, <<"/">>, <<" ", " ">>, <<"\t", "a">>, <<"\t", "a", "b", "c", "d">>, <<"c", " ", "\r">> }

\* the example of a source tree
SourceTreeLines == << <<"s", "r", "c", "/">>, <<" ", " ", "m", "a", "i", "n", ".", "c", "p", "p">>, <<" ", " ", "u", "t", "i", "l", "s", "/">>, <<" ", " ", " ", " ", "h", "e", "l", "p", "e", "r", ".", "c", "p", "p">> >>

IndentationInputs == LinesOver(IndentationPool) \cup {SourceTreeLines}

TreeCommandPool ==
    { <<>>, <<"U251C", "U2500", "U2500", " ", "a", "/">>, <<"U2502", " ", " ", " ", "U251C", "U2500", "U2500", " ", "b">>, <<" ", " ", " ", " ", "U2514", "U2500", "U2500", " ", "c", "/">>, <<"U2502", " ", " ", " ", "U2502", " ", " ", " ", "U2514", "U2500", "U2500", " ", "d">>, <<"e">>, <<"U2502">>, <<"U2514", "U2500", "U2500", " ", "/">> }

TreeCommandInputs == LinesOver(TreeCommandPool)

PathListPool ==
    { <<>>, <<"a", "/", "b", ".", "c">>, <<"a", "/", "b", "/">>, <<"a", "\\", "c">>, <<"b", ".", "c">>, <<"b", ".", "c", "/", "a">>, <<"a">>, <<"/">> }

PathListInputs == LinesOver(PathListPool)

MaxContentLines == 2

\* a scaffold, one START marker, the lines of the region, one END marker
\* and what follows it
EnhancedInputs ==
    { scaffold \o << StartMarker \o startName \o <<"-", "-", "-">> >> \o body
               \o << EndMarker \o endName \o <<"-", "-", "-">> >> \o trailer :
        scaffold \in { << <<"a", ".", "c">> >>, << <<"d", "/">>, <<" ", "a", ".", "c">> >>, << <<"a", ".", "c">>, <<"d", "/">>, <<" ", "a", ".", "c">> >>,
                       << <<"b", ".", "c">>, <<"a", ".", "c">> >> },
        startName \in { <<"a", ".", "c">>, <<" ", "a", ".", "c", " ">>, <<"d">> },
        body \in UNION {[1..n -> { <<>>, <<"x">>, <<"y">> }] : n \in 0..MaxContentLines},
        endName \in { <<"a", ".", "c">>, <<"b", ".", "c">> },
        trailer \in { <<>>, << <<"z">> >> } }

InitParse ==
    /\ pc = "ready"
    /\ settings = PureSettings
    /\ fs = BaseFileSystem
    /\ \/ \E lines \in TreeCommandInputs :
             input = [op |-> "ParseTreeCommandFormat", lines |-> lines, fs0 |-> fs]
       \/ \E lines \in IndentationInputs :
             input = [op |-> "ParseIndentationFormat", lines |-> lines, fs0 |-> fs]
       \/ \E lines \in PathListInputs :
             input = [op |-> "ParsePathListFormat", lines |-> lines, fs0 |-> fs]
       \/ \E lines \in EnhancedInputs :
             input = [op |-> "ParseEnhancedFormat", lines |-> lines, fs0 |-> fs]
    /\ log = <<>>
    /\ result = "none"

\* ParseTreeCommandFormat(lines)
ParseTreeCommand ==
    /\ pc = "ready"
    /\ input.op = "ParseTreeCommandFormat"
    /\ result' = ParseTreeCommandFormat(input.lines)
    /\ pc' = "done"
    /\ UNCHANGED <<settings, fs, log, input>>

\* ParseIndentationFormat(lines)
ParseIndentation ==
    /\ pc = "ready"
    /\ input.op = "ParseIndentationFormat"
    /\ result' = ParseIndentationFormat(input.lines)
    /\ pc' = "done"
    /\ UNCHANGED <<settings, fs, log, input>>

\* ParsePathListFormat(lines)
ParsePathList ==
    /\ pc = "ready"
    /\ input.op = "ParsePathListFormat"
    /\ result' = ParsePathListFormat(input.lines)
    /\ pc' = "done"
    /\ UNCHANGED <<settings, fs, log, input>>

\* ParseEnhancedFormat(lines)
ParseEnhanced ==
    /\ pc = "ready"
    /\ input.op = "ParseEnhancedFormat"
    /\ result' = ParseEnhancedFormat(input.lines)
    /\ pc' = "done"
    /\ UNCHANGED <<settings, fs, log, input>>

NextParse == ParseTreeCommand \/ ParseIndentation \/ ParsePathList \/ ParseEnhanced

SpecParse == InitParse /\ [][NextParse]_vars

-----------------------------------------------------------------------------
(* Properties of the sub-parsers                                           *)

ParseDone == pc = "done" /\ input.op \in {"ParseTreeCommandFormat", "ParseIndentationFormat",
                                          "ParsePathListFormat", "ParseEnhancedFormat"}

\* the names of the nodes below node, parents before children
RECURSIVE NodeNames(_)
RECURSIVE ChildNames(_, _)
NodeNames(node) == <<node.name>> \o ChildNames(node.children, 1)
ChildNames(children, i) ==
    IF i > Len(children) THEN <<>>
    ELSE NodeNames(children[i]) \o ChildNames(children, i + 1)

\* a line without its leading spaces and tabs, its trailing whitespace
\* and carriage return, and one trailing slash
StrippedName(line) ==
    LET name0 == TrimRight(TrimLeft(line, {" ", "\t"}), {" ", "\t", "\r"})
    IN  IF name0 # <<>> /\ name0[Len(name0)] = "/"
        THEN SubSeq(name0, 1, Len(name0) - 1) ELSE name0

\* the stripped names of the lines that have one
StrippedNames(lines) ==
    SelectSeq([i \in 1..Len(lines) |-> StrippedName(lines[i])], LAMBDA name : name # <<>>)

\* C23: no sequence of lines makes a parser raise an error, no node has
\* an empty name, and the Indentation parser adds one node per line that
\* has a name after stripping, named by the stripped line.
C23_ParsersNeverFail ==
    ParseDone =>
        /\ ~result.thrown
        /\ \A k \in 1..Len(ChildNames(result.root.children, 1)) :
               ChildNames(result.root.children, 1)[k] # <<>>
        /\ input.op = "ParseIndentationFormat" =>
               ChildNames(result.root.children, 1) = StrippedNames(input.lines)

\* the nodes below the root, parents before children, each with the
\* position of its parent in this list (0 for the root)
RECURSIVE Flatten(_, _, _, _)
Flatten(children, i, parent, next) ==
    IF i > Len(children) THEN <<>>
    ELSE LET below == Flatten(children[i].children, 1, next, next + 1)
         IN  <<[isDirectory |-> children[i].isDirectory, parent |-> parent]>>
             \o below
             \o Flatten(children, i + 1, parent, next + 1 + Len(below))

\* the lines that hold text, each with its indent (spaces plus 4 per
\* tab) and whether it ends with a slash
NodeLines(lines) ==
    LET named == SelectSeq(lines, LAMBDA line : Trim(line, {" ", "\t", "\r"}) # <<>>)
    IN  [k \in 1..Len(named) |->
            [indent |-> CountIndent(named[k]),
             isDirectory |-> LET t == TrimRight(named[k], {" ", "\t", "\r"})
                             IN  t[Len(t)] = "/"]]

\* the most recent directory line in front of line k that has a smaller
\* indent and no line of its own indent or less between itself and k
OpenParent(entries, k) ==
    LET open == {j \in 1..(k - 1) :
                    /\ entries[j].isDirectory
                    /\ entries[j].indent < entries[k].indent
                    /\ \A m \in (j + 1)..(k - 1) : entries[m].indent > entries[j].indent}
    IN  IF open = {} THEN 0 ELSE CHOOSE j \in open : \A o \in open : o <= j

\* C24: every node of an Indentation tree is a child of the most recent
\* preceding directory line with a strictly smaller indent that no later
\* line has closed, or of the root; files are never parents.
C24_IndentationNesting ==
    (ParseDone /\ input.op = "ParseIndentationFormat" /\ ~result.thrown) =>
        LET entries == NodeLines(input.lines)
        IN  Flatten(result.root.children, 1, 0, 1) =
                [k \in 1..Len(entries) |->
                    [isDirectory |-> entries[k].isDirectory,
                     parent |-> OpenParent(entries, k)]]

\* the source-tree example: root -> src -> [main.cpp, utils -> [helper.cpp]]
C24_Witness ==
    /\ ParseDone
    /\ input.op = "ParseIndentationFormat"
    /\ input.lines = SourceTreeLines
    /\ result.root.children =
          << [TreeNode(<<"s", "r", "c">>, TRUE) EXCEPT !.children =
                << TreeNode(<<"m", "a", "i", "n", ".", "c", "p", "p">>, FALSE),
                   [TreeNode(<<"u", "t", "i", "l", "s">>, TRUE) EXCEPT !.children =
                       << TreeNode(<<"h", "e", "l", "p", "e", "r", ".", "c", "p", "p">>, FALSE) >>] >>] >>

\* the lines of a TreeGlyph text that hold a label, each with its depth
\* (the leading columns of a bar or a space, four characters each) and
\* whether the label ends with a slash
GlyphNodeLines(lines) ==
    LET Label(line) ==
            LET pos == TreeDepthScan(line, 0, 0)[2]
            IN  IF pos >= Len(line) THEN <<>>
                ELSE Trim(TrimLeft(Substr(line, pos), TreeChars), {" ", "\t", "\r"})
        named == SelectSeq(lines, LAMBDA line : Label(line) # <<>>)
    IN  [k \in 1..Len(named) |->
            [indent |-> TreeDepthScan(named[k], 0, 0)[1],
             isDirectory |-> Label(named[k])[Len(Label(named[k]))] = "/"]]

\* C25: every node of a TreeGlyph tree hangs below the nearest still-open
\* directory of a strictly smaller depth, or below the root; no node
\* hangs below a directory of its own depth or deeper, and only labels
\* that end with a slash are parents.
C25_TreeGlyphNesting ==
    (ParseDone /\ input.op = "ParseTreeCommandFormat") =>
        LET entries == GlyphNodeLines(input.lines)
            flat    == Flatten(result.root.children, 1, 0, 1)
        IN  /\ Len(flat) = Len(entries)
            /\ \A k \in 1..Len(flat) :
                  /\ flat[k].parent = OpenParent(entries, k)
                  /\ flat[k].parent # 0 =>
                        /\ entries[flat[k].parent].isDirectory
                        /\ entries[flat[k].parent].indent < entries[k].indent

\* the nodes below the root, parents before children, as
\* [name, isDirectory, content]
RECURSIVE NodeRecords(_, _)
NodeRecords(children, i) ==
    IF i > Len(children) THEN <<>>
    ELSE <<[name |-> children[i].name, isDirectory |-> children[i].isDirectory,
            content |-> children[i].content]>>
         \o NodeRecords(children[i].children, 1)
         \o NodeRecords(children, i + 1)

\* the line that holds the marker
MarkerLine(lines, marker) == CHOOSE i \in 1..Len(lines) : Contains(lines[i], marker)

\* the name a marker line gives: the text between the marker and the
\* closing dashes, without spaces around it
MarkerName(line, marker) ==
    LET tail == Substr(line, FindStr(line, marker) + Len(marker))
    IN  Trim(SubSeq(tail, 1, FindStr(tail, <<"-", "-", "-">>)), {" ", "\t"})

\* the lines strictly between the two markers, joined with "\n"
RegionContent(lines) ==
    LET body == SubSeq(lines, MarkerLine(lines, StartMarker) + 1,
                       MarkerLine(lines, EndMarker) - 1)
    IN  IF body = <<>> THEN <<>> ELSE JoinLines(body)

\* C26: the lines between START:<name> and END:<name>, joined with "\n",
\* are the content of the file node named <name> that a depth-first
\* search finds; every other node keeps its content, and without such a
\* region no node gets content.
C26_RegionBecomesContent ==
    (ParseDone /\ input.op = "ParseEnhancedFormat" /\ ~result.thrown) =>
        LET lines   == input.lines
            name    == MarkerName(lines[MarkerLine(lines, StartMarker)], StartMarker)
            closed  == MarkerName(lines[MarkerLine(lines, EndMarker)], EndMarker) = name
            nodes   == NodeRecords(result.root.children, 1)
            scaffold == NodeRecords(ParseIndentationFormat(lines).root.children, 1)
            IsTarget(k) == /\ closed
                           /\ ~scaffold[k].isDirectory
                           /\ scaffold[k].name = name
                           /\ \A j \in 1..(k - 1) :
                                  scaffold[j].isDirectory \/ scaffold[j].name # name
        IN  nodes = [k \in 1..Len(scaffold) |->
                        IF IsTarget(k)
                        THEN [scaffold[k] EXCEPT !.content = RegionContent(lines)]
                        ELSE scaffold[k]]

\* the node and every node below it
RECURSIVE Subtrees(_)
Subtrees(node) ==
    {node} \cup UNION {Subtrees(node.children[i]) : i \in 1..Len(node.children)}

\* C27: in every tree a parser returns only the root and directory nodes
\* have children, and in a PathList tree the children of a node have
\* distinct names.
C27_TreeShape ==
    (ParseDone /\ ~result.thrown) =>
        \A node \in Subtrees(result.root) :
            /\ ~node.isDirectory => node.children = <<>>
            /\ input.op = "ParsePathListFormat" =>
                  \A a, b \in 1..Len(node.children) :
                      node.children[a].name = node.children[b].name => a = b

-----------------------------------------------------------------------------
(* Configuration: g_settings and g_compiledRegexes (the record settings),  *)
(* config.json (the one file of fs) and g_extensionsMutex.  The window     *)
(* procedure handles one message at a time on the main thread; a           *)
(* configuration world [st, file, mutex, status, relocked] is threaded     *)
(* through the calls of one handler.  status is "running" while the        *)
(* thread executes, "blocked" when it waits for the mutex for ever and     *)
(* "terminated" when an exception has left the window procedure.           *)
(* Locking a std::mutex the calling thread already owns is undefined; the  *)
(* handler's outcome is then one of RelockOutcomes.                        *)

ConfigFilePath == <<"c", "o", "n", "f", "i", "g", ".", "j", "s", "o", "n">>

\* the pattern texts of LoadSettings' defaults and of the configurations
\* used here, with the regex each compiles to; "(" does not compile
CompiledPattern ==
    [p \in {"^// --- START OF FILE: (.*) ---$", "^file: (.*)$", "^(.*\\.[a-zA-Z0-9]+)$",
            "^(.*)\\.c$"} |->
        CASE p = "^// --- START OF FILE: (.*) ---$" -> DefaultRegexes[1]
          [] p = "^file: (.*)$" -> DefaultRegexes[2]
          [] p = "^(.*\\.[a-zA-Z0-9]+)$" -> DefaultRegexes[3]
          [] p = "^(.*)\\.c$" -> SuffixRegexes[1]]

\* the members of AppSettings as LoadSettings' local `defaults` holds them
DefaultAppSettings ==
    [isCreateEmptyFileEnabled |-> TRUE, isCreateWithContentEnabled |-> TRUE,
     isCreateDirectoryStructureEnabled |-> TRUE,
     allowedExtensions |->
        << <<".", "t", "x", "t">>, <<".", "m", "d">>, <<".", "l", "o", "g">>,
           <<".", "s", "q", "l">>, <<".", "c", "p", "p">>, <<".", "h">>, <<".", "j", "s">>,
           <<".", "j", "s", "o", "n">>, <<".", "x", "m", "l">>, <<".", "c", "s">>,
           <<".", "c">> >>,
     contentCreationRegexes |-> << "^// --- START OF FILE: (.*) ---$", "^file: (.*)$",
                                   "^(.*\\.[a-zA-Z0-9]+)$" >>,
     heuristicWordCountLimit |-> 5,
     createEmptyDirectories |-> TRUE, skipExistingDirectories |-> TRUE]

RelockOutcomes == {"deadlock", "system_error", "unchecked"}

\* std::lock_guard<std::mutex> lock(g_extensionsMutex)
LockMutex(cw, ub) ==
    IF cw.status # "running" THEN cw
    ELSE IF cw.mutex = "free" THEN [cw EXCEPT !.mutex = "held"]
    ELSE [cw EXCEPT !.relocked = TRUE,
                    !.status = CASE ub = "deadlock" -> "blocked"
                                 [] ub = "system_error" -> "terminated"
                                 [] OTHER -> "running"]

\* the end of the scope of a lock_guard
UnlockMutex(cw) ==
    IF cw.status # "running" THEN cw ELSE [cw EXCEPT !.mutex = "free"]

\* g_settings = values; g_compiledRegexes is a global of its own
AssignSettings(st, values) ==
    [k \in DOMAIN st |-> IF k = "compiledRegexes" THEN st[k] ELSE values[k]]

\* CompileRegexPatterns: patterns that throw regex_error are left out
CompileRegexPatterns(st) ==
    LET compilable == SelectSeq(st.contentCreationRegexes,
                                LAMBDA p : p \in DOMAIN CompiledPattern)
    IN  [st EXCEPT !.compiledRegexes =
            [k \in 1..Len(compilable) |-> CompiledPattern[compilable[k]]]]

\* the JSON object SaveSettings builds
SettingsJson(st) ==
    [createEmptyFileEnabled |-> st.isCreateEmptyFileEnabled,
     createWithContentEnabled |-> st.isCreateWithContentEnabled,
     createDirectoryStructureEnabled |-> st.isCreateDirectoryStructureEnabled,
     createEmptyDirectories |-> st.createEmptyDirectories,
     skipExistingDirectories |-> st.skipExistingDirectories,
     allowedExtensions |-> st.allowedExtensions,
     contentCreationRegexes |-> st.contentCreationRegexes,
     heuristicWordCountLimit |-> st.heuristicWordCountLimit]

ParsableFile(j) == [parsable |-> TRUE, object |-> j]

UnparsableFile == [parsable |-> FALSE, object |-> <<>>]

\* SaveSettings: the object is built under the mutex and written after it
SaveSettings(cw, ub) ==
    With(LockMutex(cw, ub), LAMBDA a :
        IF a.status # "running" THEN a
        ELSE [UnlockMutex(a) EXCEPT
                 !.file = (ConfigFilePath :> ParsableFile(SettingsJson(a.st)))])

\* j.value(key, default)
JsonValue(j, key, default) == IF key \in DOMAIN j THEN j[key] ELSE default

\* the assignments of the try block of LoadSettings
SettingsFromJson(st, j) ==
    [st EXCEPT
        !.isCreateEmptyFileEnabled =
            JsonValue(j, "createEmptyFileEnabled", DefaultAppSettings.isCreateEmptyFileEnabled),
        !.isCreateWithContentEnabled =
            JsonValue(j, "createWithContentEnabled",
                      DefaultAppSettings.isCreateWithContentEnabled),
        !.isCreateDirectoryStructureEnabled =
            JsonValue(j, "createDirectoryStructureEnabled",
                      DefaultAppSettings.isCreateDirectoryStructureEnabled),
        !.createEmptyDirectories =
            JsonValue(j, "createEmptyDirectories", DefaultAppSettings.createEmptyDirectories),
        !.skipExistingDirectories =
            JsonValue(j, "skipExistingDirectories", DefaultAppSettings.skipExistingDirectories),
        !.allowedExtensions =
            JsonValue(j, "allowedExtensions", DefaultAppSettings.allowedExtensions),
        !.contentCreationRegexes =
            JsonValue(j, "contentCreationRegexes", DefaultAppSettings.contentCreationRegexes),
        !.heuristicWordCountLimit =
            JsonValue(j, "heuristicWordCountLimit", DefaultAppSettings.heuristicWordCountLimit)]

\* LoadSettings: file missing, file parsed, parse error
LoadSettings(cw, ub) ==
    IF ConfigFilePath \notin DOMAIN cw.file
    THEN With(LockMutex(cw, ub), LAMBDA a :
         With([a EXCEPT !.st = CompileRegexPatterns(AssignSettings(a.st, DefaultAppSettings))],
              LAMBDA b :
             SaveSettings(UnlockMutex(b), ub)))
    ELSE IF cw.file[ConfigFilePath].parsable
    THEN With(LockMutex(cw, ub), LAMBDA a :
             UnlockMutex([a EXCEPT !.st = CompileRegexPatterns(
                             SettingsFromJson(a.st, cw.file[ConfigFilePath].object))]))
    ELSE With(LockMutex(cw, ub), LAMBDA a :
             UnlockMutex([a EXCEPT !.st = AssignSettings(a.st, DefaultAppSettings)]))

\* the three toggle cases of WM_COMMAND: the lock_guard of the case block
\* is alive while SaveSettings runs
ToggleCommand(cw, flag, ub) ==
    With(LockMutex(cw, ub), LAMBDA a :
    With([a EXCEPT !.st[flag] = ~a.st[flag]], LAMBDA b :
        UnlockMutex(SaveSettings(b, ub))))

ToggledFlag ==
    [ID_MENU_TOGGLE_EMPTY |-> "isCreateEmptyFileEnabled",
     ID_MENU_TOGGLE_CONTENT |-> "isCreateWithContentEnabled",
     ID_MENU_TOGGLE_DIRECTORY |-> "isCreateDirectoryStructureEnabled"]

\* what an editor may leave in config.json
EditedConfigs ==
    { UnparsableFile,
      ParsableFile([contentCreationRegexes |-> << "^(.*)\\.c$", "(" >>]),
      ParsableFile([createEmptyFileEnabled |-> FALSE,
                    contentCreationRegexes |-> << "(", "^file: (.*)$" >>,
                    allowedExtensions |-> << <<".", "c">> >>]) }

ConfigFiles == {<<>>} \cup {(ConfigFilePath :> f) : f \in EditedConfigs}

\* the globals as their initialisers leave them
ConstructedSettings ==
    [isCreateEmptyFileEnabled |-> TRUE, isCreateWithContentEnabled |-> TRUE,
     isCreateDirectoryStructureEnabled |-> TRUE,
     allowedExtensions |-> <<>>, contentCreationRegexes |-> <<>>,
     heuristicWordCountLimit |-> 5,
     createEmptyDirectories |-> TRUE, skipExistingDirectories |-> TRUE,
     compiledRegexes |-> <<>>]

ConfigWorld == [st |-> settings, file |-> fs, mutex |-> result.g_extensionsMutex,
                status |-> "running", relocked |-> FALSE]

\* the state a handler leaves, and the message it handled
Handled(cw, message) ==
    /\ settings' = cw.st
    /\ fs' = cw.file
    /\ result' = [g_extensionsMutex |-> cw.mutex, relocked |-> cw.relocked]
    /\ pc' = IF cw.status = "running" THEN "ready" ELSE cw.status
    /\ input' = [op |-> message, before |-> settings, file0 |-> fs]
    /\ UNCHANGED log

InitConfig ==
    /\ pc = "created"
    /\ settings = ConstructedSettings
    /\ fs \in ConfigFiles
    /\ input = [op |-> "none", before |-> settings, file0 |-> fs]
    /\ log = <<>>
    /\ result = [g_extensionsMutex |-> "free", relocked |-> FALSE]

\* WM_CREATE
CreateWindow ==
    /\ pc = "created"
    /\ \E ub \in RelockOutcomes : Handled(LoadSettings(ConfigWorld, ub), "WM_CREATE")

\* WM_APP_RELOAD_CONFIG
ReloadConfig ==
    /\ pc = "ready"
    /\ \E ub \in RelockOutcomes :
          Handled(LoadSettings(ConfigWorld, ub), "WM_APP_RELOAD_CONFIG")

\* WM_COMMAND with ID_MENU_TOGGLE_EMPTY
ToggleEmpty ==
    /\ pc = "ready"
    /\ \E ub \in RelockOutcomes :
          Handled(ToggleCommand(ConfigWorld, "isCreateEmptyFileEnabled", ub),
                  "ID_MENU_TOGGLE_EMPTY")

\* WM_COMMAND with ID_MENU_TOGGLE_CONTENT
ToggleContent ==
    /\ pc = "ready"
    /\ \E ub \in RelockOutcomes :
          Handled(ToggleCommand(ConfigWorld, "isCreateWithContentEnabled", ub),
                  "ID_MENU_TOGGLE_CONTENT")

\* WM_COMMAND with ID_MENU_TOGGLE_DIRECTORY
ToggleDirectory ==
    /\ pc = "ready"
    /\ \E ub \in RelockOutcomes :
          Handled(ToggleCommand(ConfigWorld, "isCreateDirectoryStructureEnabled", ub),
                  "ID_MENU_TOGGLE_DIRECTORY")

\* WM_COMMAND with ID_MENU_EDIT_CONFIG: the editor saves config.json, or
\* the file is removed
EditConfig ==
    /\ pc = "ready"
    /\ \E file \in ConfigFiles :
          Handled([ConfigWorld EXCEPT !.file = file], "ID_MENU_EDIT_CONFIG")

NextConfig ==
    CreateWindow \/ ReloadConfig \/ ToggleEmpty \/ ToggleContent \/ ToggleDirectory
        \/ EditConfig

SpecConfig == InitConfig /\ [][NextConfig]_vars

-----------------------------------------------------------------------------
(* Properties of the configuration                                         *)

ToggleHandled == input.op \in DOMAIN ToggledFlag

\* C28: a toggle command never locks the mutex its thread holds; it ends
\* with exactly its flag flipped, the settings written to config.json and
\* the mutex free, and the window procedure goes on with the next message.
C28_ToggleReleasesMutex ==
    ToggleHandled =>
        /\ ~result.relocked
        /\ pc = "ready"
        /\ result.g_extensionsMutex = "free"
        /\ settings = [input.before EXCEPT ![ToggledFlag[input.op]] = ~input.before[ToggledFlag[input.op]]]
        /\ ConfigFilePath \in DOMAIN fs
        /\ fs[ConfigFilePath] = ParsableFile(SettingsJson(settings))

LoadCompleted == pc = "ready" /\ input.op \in {"WM_CREATE", "WM_APP_RELOAD_CONFIG"}

\* C29: after every completed LoadSettings the compiled list is the
\* in-order compilation of the compilable patterns of the settings.
C29_CompiledMatchesSettings ==
    LoadCompleted =>
        settings.compiledRegexes = CompileRegexPatterns(settings).compiledRegexes

-----------------------------------------------------------------------------
(* Properties of the feature toggles in the heuristic path                 *)

\* the files TryFileGeneration created or replaced
WrittenFiles ==
    {k \in ChangedKeys(input.fs0, fs) : k \in DOMAIN fs /\ ~fs[k].isDir}

\* C30: with the empty-file feature disabled TryFileGeneration leaves no
\* new or replaced file of length zero, and with the content-file feature
\* disabled it leaves no new or replaced file with content.
C30_FeaturesGateOutcomes ==
    FileDone =>
        /\ ~settings.isCreateEmptyFileEnabled =>
              \A k \in WrittenFiles : fs[k].content # <<>>
        /\ ~settings.isCreateWithContentEnabled =>
              \A k \in WrittenFiles : fs[k].content = <<>>

=============================================================================
